---- MODULE Spec2Model ----
(***************************************************************************)
(* BlinkDrive: gaze / voice control layer.                                 *)
(*                                                                         *)
(* The module models the React components and services of the repository  *)
(* as state machines.  A React state setter does not change the state the  *)
(* component reads: it queues the new value, and a later render commits it *)
(* and runs the effects whose dependencies changed.  Each component        *)
(* therefore has its committed state (the source's names), the queued      *)
(* values (next...) and a flag saying that a render is pending.  Handlers  *)
(* (events, timer callbacks, animation frames) are atomic; a render is a   *)
(* step of its own that happens before the clock moves on.                  *)
(*                                                                         *)
(* Time is a global clock `now` in milliseconds.                           *)
(***************************************************************************)
EXTENDS Integers, Sequences, FiniteSets, TLC

\* ------------------------------------------------------------------------
\* Bounds of the model (not program constants)
\* ------------------------------------------------------------------------
DwellMaxTime == 9      \* the DwellButton clock runs from 1 to DwellMaxTime
DwellMaxStep == 2      \* largest advance of the clock between two steps
MaxDwell     == 3      \* dwellTimeMs prop ranges over 1..MaxDwell
MaxClicks    == 2      \* onClick invocations counted up to this number
InnerWidth   == 1000   \* window.innerWidth
CalibMaxTime == 24000  \* the clock of SpecCalib stops here
MaxAttempts  == 2      \* initTracking() calls running at the same time
VoiceMaxTime == 7000   \* the clock of SpecVoice stops here
PosScale == 1000       \* the cursor position is kept in 1/PosScale px

VARIABLES
  now,            \* the clock (performance.now() / Date.now()), ms
  \* ---- DwellButton (src/unnamed/part_000) ----
  mouseOver,      \* the pointer is physically over the button
  focused,        \* the button has keyboard focus
  isHovered,      \* useState(false), committed value
  progress,       \* useState(0), committed value, a fraction <<num, den>>
  nextIsHovered,  \* value queued by setIsHovered
  nextProgress,   \* value queued by setProgress
  dwellDirty,     \* a render of the button is pending
  disabled,       \* prop
  dwellTimeMs,    \* prop
  startTimeRef,   \* useRef<number | null>, 0 stands for null
  requestRef,     \* useRef<number | null>, 0 stands for null
  rafQueue,       \* requested animation frames of the button: [id, dwell]
  clicks,         \* number of onClick() invocations
  activations,    \* onClick() invocations since the last mouseenter / focus
  \* ---- App (src/unnamed/part_001): committed React state ----
  view,             \* 'dashboard' | 'calibration' | 'settings'
  isTrackingEnabled,\* settings.isTrackingEnabled
  isVoiceEnabled,   \* settings.isVoiceEnabled
  gaze,             \* {x, y}
  toast,            \* message of the toast shown, "" for null
  scrollAction,     \* 'up' | 'down' | "none" for null
  precisionMode,
  calibState,       \* 'idle' | 'running' | 'completed'
  activePointIndex,
  calibProgress,    \* a fraction <<num, den>>
  queued,           \* the values queued by the state setters of App
  appDirty,         \* a render of App is pending
  \* ---- App: refs, DOM, timers ----
  gazeRef, viewRef, precisionModeRef,
  lastCommandTime,  \* useRef(0)
  scrollRef,        \* useRef<number | null>, 0 stands for null
  scrollFrames,     \* requested animation frames of scrollLoop: [id, top]
  dataCalibrating,  \* document.body has data-calibrating = 'true'
  progressInterval, \* setInterval of the sequencer, NoTimer when cleared
  pointTimeout,     \* setTimeout of the sequencer, NoTimer when cleared/fired
  unmuteTimers,     \* deadlines of the pending 3000ms safety timeouts
  cursorFrame,      \* GazeCursor has an animation frame requested
  toastTimer,       \* setTimeout(onClose, 3000) of the Toast, NoTimer when
                    \* cleared, fired or no Toast is mounted
  \* ---- services and browser ----
  ignoreInput,      \* VoiceService.ignoreInput
  isListening,      \* VoiceService.isListening
  shouldBeListening, \* VoiceService.shouldBeListening
  hasRecognition,   \* the runtime has a SpeechRecognition: this.recognition
                    \* is not null
  provider,         \* the browser's recognition session: "idle" |
                    \* "running" | "stopping" (its 'end' event is due)
  synthQueue,       \* window.speechSynthesis: utterances speaking or queued,
                    \* each [text, unmutes: its onend unmutes the voice
                    \* input, fresh: handed over at this instant]
  enginePaused,     \* webgazer is paused
  calibData,        \* webgazer training data: "kept" | "cleared" | "recorded"
  initialized,      \* EyeTrackingService.initialized
  innerHeight,      \* window.innerHeight
  position,         \* GazeCursor: useState({x: 0, y: 0}), in 1/PosScale px
  smoothing,        \* settings.smoothing
  gazeListener,     \* the installed gaze callback: whether one is set and
                    \* the isTrackingEnabled value its closure captured
  initAttempts,     \* running initTracking() calls, in order of their start
  \* ---- history (observations of the run, not program state) ----
  lastRecord,       \* the last recordCalibrationPoint call
  visited,          \* point indices the sequencer started a window for
  timerTime,        \* sum of the delays of the point timeouts that fired
  cancelled,        \* a voice cancel ran and no start since
  clickedAt,        \* where the last synthetic click was dispatched
  scrolled,         \* top of the last window.scrollBy call, 0 for none
  actedAt,          \* when the callback last acted on a transcript, 0
                    \* before the first
  toastShownAt,     \* when setToast was last called with a message
  lastCall          \* what the last call or event of VoiceService did,
                    \* "none" before the first

dwellVars == <<mouseOver, focused, isHovered, progress, nextIsHovered,
               nextProgress, dwellDirty, disabled, dwellTimeMs, startTimeRef,
               requestRef, rafQueue, clicks, activations>>

appState == <<view, isTrackingEnabled, isVoiceEnabled, gaze, toast,
              scrollAction, precisionMode, calibState, activePointIndex,
              calibProgress>>

appRefs == <<gazeRef, viewRef, precisionModeRef, lastCommandTime, scrollRef,
             scrollFrames, dataCalibrating, progressInterval, pointTimeout,
             unmuteTimers, cursorFrame, toastTimer>>

voiceVars == <<shouldBeListening, hasRecognition, provider, lastCall>>

services == <<ignoreInput, isListening, voiceVars, synthQueue, enginePaused, calibData,
              initialized, innerHeight, position, smoothing, gazeListener,
              initAttempts>>

history == <<lastRecord, visited, timerTime, cancelled,
             clickedAt, scrolled, actedAt, toastShownAt>>

appVars == <<appState, queued, appDirty, appRefs, services, history>>

vars == <<now, dwellVars, appVars>>


\* ------------------------------------------------------------------------
\* Shared
\* ------------------------------------------------------------------------

\* A progress percentage is kept exact, as the fraction num/den.
ZeroProgress == <<0, 1>>
FullProgress == <<100, 1>>

IsZero(p) == p[1] = 0

\* requestAnimationFrame returns a handle that no pending request and no
\* remembered handle carries.
FreshFrameId(queue, ref) ==
  CHOOSE i \in 1..(Cardinality(queue) + 2) :
    i # ref /\ \A f \in queue : f.id # i

\* cancelAnimationFrame(id)
CancelFrame(queue, id) == {f \in queue : f.id # id}

\* ------------------------------------------------------------------------
\* App: constants of the source
\* ------------------------------------------------------------------------
settleTime      == 800
recordTime      == 1200
SampleInterval  == 50
Cooldown        == 2000
UnmuteDelay     == 3000
scrollThreshold == 120
ScrollStep      == 5

CALIB_POINTS == <<
  [x |-> 10, y |-> 10], [x |-> 50, y |-> 10], [x |-> 90, y |-> 10],
  [x |-> 10, y |-> 50], [x |-> 50, y |-> 50], [x |-> 90, y |-> 50],
  [x |-> 10, y |-> 90], [x |-> 50, y |-> 90], [x |-> 90, y |-> 90] >>

\* activePointIndex counts from 0; TLA+ sequences count from 1.
CalibPoint(i) == CALIB_POINTS[i + 1]
LastPointIndex == Len(CALIB_POINTS) - 1

\* Date.now() when the page is loaded.  lastCommandTime starts at 0 and the
\* clock is far beyond the cooldown then, as the epoch clock is.
Epoch == 2 * Cooldown

NoTimer == [on |-> FALSE]

\* The delay of the Toast's timeout
ToastDelay == 3000
NoListener == [installed |-> FALSE, captured |-> FALSE]
NoRecord == [idx |-> -1]
NoPoint == [x |-> -1, y |-> -1]

\* Math.min((elapsed / totalDuration) * 100, 100)
CalibProgressAt(elapsed) ==
  IF elapsed >= settleTime + recordTime THEN FullProgress
  ELSE <<elapsed * 100, settleTime + recordTime>>

\* The conversion with the two axes taken for each other
CalibPx_Swapped(i, w, h) ==
  [x |-> CalibPoint(i).y * w, y |-> CalibPoint(i).x * h, den |-> 100]

\* (pt.x / 100) * window.innerWidth, (pt.y / 100) * window.innerHeight: kept
\* exact as numerators over 100
CalibPx(i, w, h) ==
  [x |-> CalibPoint(i).x * w, y |-> CalibPoint(i).y * h, den |-> 100]

\* settings.smoothing when nothing is saved
DefaultSmoothing == 5

\* GazeCursor: useState({ x: 0, y: 0 }), and App: useState({ x: 0, y: 0 })
Origin == [x |-> 0, y |-> 0]

\* A state of App between two events, nothing queued: the given settings,
\* gaze g rendered with the cursor at pos.  ready: initTracking() has run to
\* its end and its listener is installed; if not, it is at its first await.
\* speech: the runtime has a speech-recognition API.
AppOn(speech, tracking, voice, h, ready, g, prec, pos, sm) ==
  /\ view = "dashboard"
  /\ isTrackingEnabled = tracking
  /\ isVoiceEnabled = voice
  /\ gaze = g
  /\ toast = ""
  /\ scrollAction = "none"
  /\ precisionMode = prec
  /\ calibState = "idle"
  /\ activePointIndex = 0
  /\ calibProgress = ZeroProgress
  /\ queued = [view |-> "dashboard", isTrackingEnabled |-> tracking,
               isVoiceEnabled |-> voice, gaze |-> g,
               toast |-> "", scrollAction |-> "none", precisionMode |-> prec,
               calibState |-> "idle", activePointIndex |-> 0,
               calibProgress |-> ZeroProgress]
  /\ appDirty = FALSE
  /\ gazeRef = g
  /\ viewRef = "dashboard"
  /\ precisionModeRef = prec
  /\ lastCommandTime = 0
  /\ scrollRef = 0
  /\ scrollFrames = {}
  /\ dataCalibrating = FALSE
  /\ progressInterval = NoTimer
  /\ pointTimeout = NoTimer
  /\ unmuteTimers = {}
  /\ cursorFrame = tracking
  /\ toastTimer = NoTimer
  /\ ignoreInput = FALSE
  /\ hasRecognition = speech
  /\ isListening = (voice /\ speech)
  /\ shouldBeListening = voice
  /\ provider = IF voice /\ speech THEN "running" ELSE "idle"
  /\ lastCall = "none"
  /\ synthQueue = <<>>
  /\ enginePaused = ~tracking
  /\ calibData = "kept"
  /\ initialized = ready
  /\ innerHeight = h
  /\ position = pos
  /\ smoothing = sm
  /\ gazeListener = IF ready THEN [installed |-> TRUE, captured |-> tracking]
                    ELSE NoListener
  /\ initAttempts = IF ready THEN <<>>
                    ELSE <<[captured |-> tracking, pc |-> "permission"]>>
  /\ lastRecord = NoRecord
  /\ visited = <<>>
  /\ timerTime = 0
  /\ cancelled = FALSE
  /\ clickedAt = NoPoint
  /\ scrolled = 0
  /\ actedAt = 0
  /\ toastShownAt = 0

\* The same where the runtime has a speech-recognition API
AppAt(tracking, voice, h, ready, g, prec, pos, sm) ==
  AppOn(TRUE, tracking, voice, h, ready, g, prec, pos, sm)

\* The state of App after it mounted with the given settings: every effect
\* has run once.
AppMounted(tracking, voice, h) ==
  AppAt(tracking, voice, h, FALSE, Origin, FALSE, Origin, DefaultSmoothing)

\* The button of SpecDwell stands alone: App does not move.
AppIdle == AppMounted(FALSE, FALSE, 0)

\* ------------------------------------------------------------------------
\* DwellButton
\* ------------------------------------------------------------------------


\* Math.min((elapsed / dwellTimeMs) * 100, 100)
DwellProgress(elapsed, dwell) ==
  IF elapsed >= dwell THEN FullProgress ELSE <<elapsed * 100, dwell>>


DwellInit ==
  /\ mouseOver = FALSE
  /\ focused = FALSE
  /\ isHovered = FALSE
  /\ progress = ZeroProgress
  /\ nextIsHovered = FALSE
  /\ nextProgress = ZeroProgress
  /\ dwellDirty = FALSE
  /\ disabled \in BOOLEAN
  /\ dwellTimeMs \in 1..MaxDwell
  /\ startTimeRef = 0
  /\ requestRef = 0
  /\ rafQueue = {}
  /\ clicks = 0
  /\ activations = 0

\* The App specifications leave the single DwellButton of SpecDwell alone.
DwellIdle ==
  /\ DwellInit
  /\ disabled = FALSE
  /\ dwellTimeMs = 1

\* setIsHovered(v): queue the value, a render is pending
SetIsHovered(v) ==
  /\ nextIsHovered' = v
  /\ dwellDirty' = TRUE

\* onMouseEnter={() => setIsHovered(true)}
MouseEnter ==
  /\ ~mouseOver
  /\ mouseOver' = TRUE
  /\ SetIsHovered(TRUE)
  /\ activations' = 0
  /\ UNCHANGED appVars
  /\ UNCHANGED <<now, focused, isHovered, progress, nextProgress, disabled,
                 dwellTimeMs, startTimeRef, requestRef, rafQueue, clicks>>

\* onMouseLeave={() => setIsHovered(false)}
MouseLeave ==
  /\ mouseOver
  /\ mouseOver' = FALSE
  /\ SetIsHovered(FALSE)
  /\ UNCHANGED appVars
  /\ UNCHANGED <<now, focused, isHovered, progress, nextProgress, disabled,
                 dwellTimeMs, startTimeRef, requestRef, rafQueue, clicks,
                 activations>>

\* onFocus={() => setIsHovered(true)}
Focus ==
  /\ ~focused
  /\ focused' = TRUE
  /\ SetIsHovered(TRUE)
  /\ activations' = 0
  /\ UNCHANGED appVars
  /\ UNCHANGED <<now, mouseOver, isHovered, progress, nextProgress, disabled,
                 dwellTimeMs, startTimeRef, requestRef, rafQueue, clicks>>

\* onBlur={() => setIsHovered(false)}
Blur ==
  /\ focused
  /\ focused' = FALSE
  /\ SetIsHovered(FALSE)
  /\ UNCHANGED appVars
  /\ UNCHANGED <<now, mouseOver, isHovered, progress, nextProgress, disabled,
                 dwellTimeMs, startTimeRef, requestRef, rafQueue, clicks,
                 activations>>

\* The effect without its cancelAnimationFrame calls
DwellEffect_NoCancel(hov, dis, dwell) ==
  IF hov /\ ~dis
  THEN LET id == FreshFrameId(rafQueue, requestRef)
       IN /\ rafQueue' = rafQueue \cup {[id |-> id, dwell |-> dwell]}
          /\ requestRef' = id
          /\ nextProgress' = nextProgress
          /\ startTimeRef' = startTimeRef
  ELSE /\ rafQueue' = rafQueue
       /\ requestRef' = requestRef
       /\ nextProgress' = ZeroProgress
       /\ startTimeRef' = 0

\* The effect where a re-run on a hovered button starts the session anew
DwellEffect_Restarts(hov, dis, dwell) ==
  LET cleaned == IF requestRef # 0 THEN CancelFrame(rafQueue, requestRef)
                 ELSE rafQueue
  IN IF hov /\ ~dis
     THEN LET id == FreshFrameId(cleaned, requestRef)
          IN /\ rafQueue' = cleaned \cup {[id |-> id, dwell |-> dwell]}
             /\ requestRef' = id
             /\ nextProgress' = nextProgress
             /\ startTimeRef' = 0
     ELSE /\ rafQueue' = cleaned
          /\ requestRef' = requestRef
          /\ nextProgress' = ZeroProgress
          /\ startTimeRef' = 0

\* The effect of the button, run by a render whose dependencies
\* [isHovered, dwellTimeMs, onClick, disabled] changed: first the cleanup of
\* the previous run, then the body, with the values of the new render.
DwellEffect(hov, dis, dwell) ==
  LET cleaned == IF requestRef # 0 THEN CancelFrame(rafQueue, requestRef)
                 ELSE rafQueue
  IN IF hov /\ ~dis
     THEN LET id == FreshFrameId(cleaned, requestRef)
          IN /\ rafQueue' = cleaned \cup {[id |-> id, dwell |-> dwell]}
             /\ requestRef' = id
             /\ nextProgress' = nextProgress
             /\ startTimeRef' = startTimeRef
     ELSE /\ rafQueue' = cleaned
          /\ requestRef' = requestRef
          /\ nextProgress' = ZeroProgress
          /\ startTimeRef' = 0

\* A render of the button: the queued state is committed, the props are the
\* ones the parent passes, and the effect runs when a dependency changed.
DwellRender(newDisabled, newDwell, newOnClick) ==
  /\ isHovered' = nextIsHovered
  /\ progress' = nextProgress
  /\ disabled' = newDisabled
  /\ dwellTimeMs' = newDwell
  /\ nextIsHovered' = nextIsHovered
  /\ IF \/ nextIsHovered # isHovered
        \/ newDwell # dwellTimeMs
        \/ newDisabled # disabled
        \/ newOnClick
     THEN DwellEffect(nextIsHovered, newDisabled, newDwell)
     ELSE UNCHANGED <<rafQueue, requestRef, nextProgress, startTimeRef>>
  /\ dwellDirty' = (nextProgress' # progress')
  /\ UNCHANGED <<now, mouseOver, focused, clicks, activations>>
  /\ UNCHANGED appVars

\* The render React schedules after a state setter of the button ran.
DwellCommit ==
  /\ dwellDirty
  /\ DwellRender(disabled, dwellTimeMs, FALSE)

\* The parent renders and passes props: a changed dwellTimeMs or disabled, or
\* a new onClick closure (App creates its onClick closures on every render).
ParentRender(newDisabled, newDwell, newOnClick) ==
  /\ newDisabled # disabled \/ newDwell # dwellTimeMs \/ newOnClick
  /\ DwellRender(newDisabled, newDwell, newOnClick)

\* animate(time) that keeps the hover and the loop alive after it fired
AnimateBody_KeepsHover(f, time) ==
  LET start   == IF startTimeRef = 0 THEN time ELSE startTimeRef
      elapsed == time - start
      queue   == rafQueue \ {f}
      id      == FreshFrameId(queue, requestRef)
  IN /\ rafQueue' = queue \cup {[id |-> id, dwell |-> f.dwell]}
     /\ requestRef' = id
     /\ UNCHANGED nextIsHovered
     /\ IF elapsed < f.dwell
        THEN /\ nextProgress' = DwellProgress(elapsed, f.dwell)
             /\ startTimeRef' = start
             /\ UNCHANGED <<clicks, activations>>
        ELSE /\ clicks' = clicks + 1
             /\ activations' = activations + 1
             /\ nextProgress' = ZeroProgress
             /\ startTimeRef' = 0

\* animate(time) of the closure that requested frame f
AnimateBody(f, time) ==
  LET start   == IF startTimeRef = 0 THEN time ELSE startTimeRef
      elapsed == time - start
      queue   == rafQueue \ {f}
  IN IF elapsed < f.dwell
     THEN LET id == FreshFrameId(queue, requestRef)
          IN /\ nextProgress' = DwellProgress(elapsed, f.dwell)
             /\ rafQueue' = queue \cup {[id |-> id, dwell |-> f.dwell]}
             /\ requestRef' = id
             /\ startTimeRef' = start
             /\ UNCHANGED <<clicks, activations, nextIsHovered>>
     ELSE /\ clicks' = clicks + 1
          /\ activations' = activations + 1
          /\ nextIsHovered' = FALSE
          /\ nextProgress' = ZeroProgress
          /\ startTimeRef' = 0
          /\ rafQueue' = queue
          /\ UNCHANGED requestRef

\* The browser runs a requested animation frame of the button.
Animate(f) ==
  /\ f \in rafQueue
  /\ clicks < MaxClicks
  /\ AnimateBody(f, now)
  /\ dwellDirty' = TRUE
  /\ UNCHANGED appVars
  /\ UNCHANGED <<now, mouseOver, focused, isHovered, progress, disabled,
                 dwellTimeMs>>

\* Time passes; a pending render happens before the clock moves.
DwellTick(d) ==
  /\ ~dwellDirty
  /\ now + d <= DwellMaxTime
  /\ now' = now + d
  /\ UNCHANGED appVars
  /\ UNCHANGED dwellVars

DwellNext ==
  \/ MouseEnter
  \/ MouseLeave
  \/ Focus
  \/ Blur
  \/ DwellCommit
  \/ \E nd \in BOOLEAN, nw \in 1..MaxDwell, nc \in BOOLEAN : ParentRender(nd, nw, nc)
  \/ \E f \in rafQueue : Animate(f)
  \/ \E d \in 1..DwellMaxStep : DwellTick(d)

InitDwell ==
  /\ now = 1
  /\ DwellInit
  /\ AppIdle
SpecDwell == InitDwell /\ [][DwellNext]_vars

\* ------------------------------------------------------------------------
\* App: handlers
\* ------------------------------------------------------------------------
\* What the handlers of App write, gathered in one record so that a handler
\* is a function from the record before to the record after.
Cur ==
  [queued |-> queued, dirty |-> appDirty, lastCommandTime |-> lastCommandTime,
   ignoreInput |-> ignoreInput, synthQueue |-> synthQueue,
   unmuteTimers |-> unmuteTimers, enginePaused |-> enginePaused,
   calibData |-> calibData, dataCalibrating |-> dataCalibrating,
   clickedAt |-> clickedAt, visited |-> visited, timerTime |-> timerTime,
   cancelled |-> cancelled, actedAt |-> actedAt,
   toastShownAt |-> toastShownAt]

Apply(r) ==
  /\ queued' = r.queued
  /\ appDirty' = r.dirty
  /\ lastCommandTime' = r.lastCommandTime
  /\ ignoreInput' = r.ignoreInput
  /\ synthQueue' = r.synthQueue
  /\ unmuteTimers' = r.unmuteTimers
  /\ enginePaused' = r.enginePaused
  /\ calibData' = r.calibData
  /\ dataCalibrating' = r.dataCalibrating
  /\ clickedAt' = r.clickedAt
  /\ visited' = r.visited
  /\ timerTime' = r.timerTime
  /\ cancelled' = r.cancelled
  /\ actedAt' = r.actedAt
  /\ toastShownAt' = r.toastShownAt

\* What no handler of App writes directly: the committed state, the refs
\* the effects sync, the timers of the sequencer.
HandlerFrame ==
  UNCHANGED <<now, dwellVars, appState, gazeRef, viewRef, precisionModeRef,
              toastTimer, progressInterval, pointTimeout, cursorFrame, isListening, voiceVars,
              initialized, innerHeight, position, smoothing, gazeListener,
              initAttempts>>

\* A state setter of App: setX(v) queues v and asks for a render.
SetState(r, field, v) ==
  [r EXCEPT !.queued = [r.queued EXCEPT ![field] = v], !.dirty = TRUE]

\* setToast({ msg, type })
SetToast(r, msg) ==
  [SetState(r, "toast", msg) EXCEPT !.toastShownAt = now]

\* startAutoCalibration() leaving activePointIndex and calibProgress as
\* the last run left them
StartAutoCalibration_KeepsIndex(r) ==
  LET q == [r.queued EXCEPT !.isTrackingEnabled = TRUE,
                            !.calibState = "running"]
  IN [r EXCEPT !.ignoreInput = TRUE,
               !.calibData = "cleared",
               !.enginePaused = FALSE,
               !.queued = q,
               !.dirty = TRUE,
               !.dataCalibrating = TRUE,
               !.visited = <<>>,
               !.timerTime = 0,
               !.cancelled = FALSE]

\* startAutoCalibration()
StartAutoCalibration(r) ==
  LET q == [r.queued EXCEPT !.isTrackingEnabled = TRUE,
                            !.calibState = "running",
                            !.activePointIndex = 0,
                            !.calibProgress = ZeroProgress]
  IN [r EXCEPT !.ignoreInput = TRUE,
               !.calibData = "cleared",
               !.enginePaused = FALSE,
               !.queued = q,
               !.dirty = TRUE,
               !.dataCalibrating = TRUE,
               !.visited = <<>>,
               !.timerTime = 0,
               !.cancelled = FALSE]

\* The user acts on what is rendered: an activation of a button comes when
\* no render of App is pending.  (Timer callbacks, animation frames, gaze
\* samples and transcripts are not paced by the user and may come before the
\* pending render.)
Rendered == ~appDirty

\* The Start Calibration / Redo DwellButton fires its onClick.  The buttons
\* are rendered in the calibration view while the committed calibState is
\* 'idle' (Start) or 'completed' (Redo).
ClickStart ==
  /\ Rendered
  /\ view = "calibration"
  /\ calibState \in {"idle", "completed"}
  /\ Apply(StartAutoCalibration(Cur))
  /\ HandlerFrame
  /\ UNCHANGED <<scrollRef, scrollFrames, lastRecord, scrolled>>

\* A navigation DwellButton fires its onClick: setView(item.id)
ClickNav(v) ==
  /\ Rendered
  /\ v # view
  /\ Apply(SetState(Cur, "view", v))
  /\ HandlerFrame
  /\ UNCHANGED <<scrollRef, scrollFrames, lastRecord, scrolled>>

\* The callback of progressInterval, every 50 ms
IntervalTick ==
  /\ progressInterval.on
  /\ progressInterval.next = now
  /\ LET elapsed == now - progressInterval.startTime
         r == SetState(Cur, "calibProgress", CalibProgressAt(elapsed))
     IN IF elapsed > settleTime
        THEN /\ Apply([r EXCEPT !.calibData = "recorded"])
             /\ lastRecord' = [idx |-> progressInterval.idx, at |-> now,
                               elapsed |-> elapsed,
                               px |-> CalibPx(progressInterval.idx, InnerWidth, innerHeight)]
        ELSE /\ Apply(r)
             /\ UNCHANGED lastRecord
  /\ progressInterval' = [progressInterval EXCEPT !.next = now + SampleInterval]
  /\ UNCHANGED <<now, dwellVars, appState, gazeRef, viewRef, precisionModeRef,
                 toastTimer,
                 pointTimeout, cursorFrame, isListening, voiceVars, initialized,
                 innerHeight, position, smoothing, gazeListener, initAttempts,
                 scrollRef,
                 scrollFrames, scrolled>>

\* An utterance handed to speechSynthesis.speak
Utterance(text, unmutes) == [text |-> text, unmutes |-> unmutes, fresh |-> TRUE]

\* The callback with the last point taken for the one before it
PointTimeoutBody_OffByOne(r, idx) ==
  IF idx < LastPointIndex - 1
  THEN SetState(SetState(r, "activePointIndex", r.queued.activePointIndex + 1),
                "calibProgress", ZeroProgress)
  ELSE LET done == SetToast(SetState(SetState(r, "calibState", "completed"),
                                     "calibProgress", FullProgress),
                            "Calibration Successful!")
       IN [done EXCEPT !.ignoreInput = FALSE,
                       !.synthQueue = Append(r.synthQueue,
                                        Utterance("Calibration complete", FALSE))]

\* The callback leaving the voice input muted at the end of the last point
PointTimeoutBody_KeepsMute(r, idx) ==
  IF idx < LastPointIndex
  THEN SetState(SetState(r, "activePointIndex", r.queued.activePointIndex + 1),
                "calibProgress", ZeroProgress)
  ELSE LET done == SetToast(SetState(SetState(r, "calibState", "completed"),
                                     "calibProgress", FullProgress),
                            "Calibration Successful!")
       IN [done EXCEPT !.synthQueue = Append(r.synthQueue,
                                        Utterance("Calibration complete", FALSE))]

\* The callback of pointTimeout, settleTime + recordTime after the window
\* of the point began.  activePointIndex is the value its closure captured.
PointTimeoutBody(r, idx) ==
  IF idx < LastPointIndex
  THEN SetState(SetState(r, "activePointIndex", r.queued.activePointIndex + 1),
                "calibProgress", ZeroProgress)
  ELSE LET done == SetToast(SetState(SetState(r, "calibState", "completed"),
                                     "calibProgress", FullProgress),
                            "Calibration Successful!")
       IN [done EXCEPT !.ignoreInput = FALSE,
                       !.synthQueue = Append(r.synthQueue,
                                        Utterance("Calibration complete", FALSE))]

PointTimeout ==
  /\ pointTimeout.on
  /\ pointTimeout.deadline = now
  /\ LET r == PointTimeoutBody(Cur, pointTimeout.idx)
     IN Apply([r EXCEPT !.timerTime = r.timerTime + settleTime + recordTime])
  /\ progressInterval' = NoTimer
  /\ pointTimeout' = NoTimer
  /\ UNCHANGED <<now, dwellVars, appState, gazeRef, viewRef, precisionModeRef,
                 toastTimer,
                 cursorFrame, isListening, voiceVars, initialized, innerHeight,
                 position, smoothing,
                 gazeListener, initAttempts, scrollRef, scrollFrames,
                 lastRecord, scrolled>>

\* The 'end' event of the utterance that is playing.  Speaking takes time:
\* the event comes after the clock moved on from the speak() call (the
\* utterance is fresh until then).
UtteranceEnd ==
  /\ synthQueue # <<>>
  /\ ~Head(synthQueue).fresh
  /\ synthQueue' = Tail(synthQueue)
  /\ ignoreInput' = IF Head(synthQueue).unmutes THEN FALSE ELSE ignoreInput
  /\ HandlerFrame
  /\ UNCHANGED <<queued, appDirty, lastCommandTime, unmuteTimers, enginePaused,
                 calibData, dataCalibrating, history, scrollRef, scrollFrames>>

\* ------------------------------------------------------------------------
\* App: the voice command listener
\* ------------------------------------------------------------------------
\* The callback looks at a transcript only through cmd.includes(keyword), so
\* a transcript is modelled by the set of keywords of the grammar it
\* includes.  'start tracking' includes 'start' and 'stop tracking' includes
\* 'stop', as substrings do.
Keywords ==
  {"dashboard", "home", "calibrate", "calibration", "settings", "configure",
   "start tracking", "enable tracking", "stop tracking", "pause", "start",
   "precision", "slow mode", "reset", "click", "select", "stop", "cancel"}

IsTranscript(cmd) ==
  /\ cmd \subseteq Keywords
  /\ "start tracking" \in cmd => "start" \in cmd
  /\ "stop tracking" \in cmd => "stop" \in cmd

\* cmd.includes(k)
Includes(cmd, k) == k \in cmd

\* window.speechSynthesis.speaking
Speaking(r) == r.synthQueue # <<>>

\* document.elementFromPoint(x, y) is null outside the viewport
ElementAt(pt) ==
  pt.x >= 0 /\ pt.x < InnerWidth /\ pt.y >= 0 /\ pt.y < innerHeight

\* The interrupt taking any transcript for a cancel
CalibrationInterrupt_AnyWord(r, cmd) ==
  [SetState(r, "calibState", "idle") EXCEPT
     !.dataCalibrating = FALSE,
     !.enginePaused = TRUE,
     !.synthQueue = Append(r.synthQueue,
                           Utterance("Calibration cancelled", FALSE)),
     !.cancelled = TRUE]

\* The calibration interrupt of the callback
CalibrationInterrupt(r, cmd) ==
  IF Includes(cmd, "stop") \/ Includes(cmd, "cancel")
  THEN [SetState(r, "calibState", "idle") EXCEPT
          !.dataCalibrating = FALSE,
          !.enginePaused = TRUE,
          !.synthQueue = Append(r.synthQueue,
                                Utterance("Calibration cancelled", FALSE)),
          !.cancelled = TRUE]
  ELSE r

\* The grammar with the settings rule looked at first
Grammar_SettingsFirst(r, cmd) ==
  IF Includes(cmd, "settings") \/ Includes(cmd, "configure")
  THEN [r |-> SetState(r, "view", "settings"), feedback |-> "Settings loaded"]
  ELSE IF Includes(cmd, "dashboard") \/ Includes(cmd, "home")
  THEN [r |-> SetState(r, "view", "dashboard"), feedback |-> "Main view active"]
  ELSE IF Includes(cmd, "calibrate") \/ Includes(cmd, "calibration")
  THEN [r |-> SetState(r, "view", "calibration"), feedback |-> "Alignment view active"]
  ELSE IF Includes(cmd, "start tracking") \/ Includes(cmd, "enable tracking")
  THEN [r |-> SetState(r, "isTrackingEnabled", TRUE), feedback |-> "Tracker active"]
  ELSE IF Includes(cmd, "stop tracking") \/ Includes(cmd, "pause")
  THEN [r |-> SetState(r, "isTrackingEnabled", FALSE), feedback |-> "Paused"]
  ELSE IF Includes(cmd, "start") /\ viewRef = "calibration"
  THEN [r |-> StartAutoCalibration(r), feedback |-> ""]
  ELSE IF Includes(cmd, "precision") \/ Includes(cmd, "slow mode")
  THEN [r |-> SetState(r, "precisionMode", ~precisionModeRef),
        feedback |-> IF ~precisionModeRef THEN "Precision active"
                     ELSE "Normal speed"]
  ELSE IF Includes(cmd, "reset")
  THEN [r |-> [SetToast(r, "Calibration data reset.") EXCEPT
                 !.calibData = "cleared"],
        feedback |-> "Data reset"]
  ELSE IF Includes(cmd, "click") \/ Includes(cmd, "select")
  THEN IF ElementAt(gazeRef)
       THEN [r |-> [r EXCEPT !.clickedAt = gazeRef], feedback |-> "Clicked"]
       ELSE [r |-> r, feedback |-> ""]
  ELSE [r |-> r, feedback |-> ""]

\* The grammar with the bare 'start' rule looked at before the tracking rules
Grammar_StartFirst(r, cmd) ==
  IF Includes(cmd, "dashboard") \/ Includes(cmd, "home")
  THEN [r |-> SetState(r, "view", "dashboard"), feedback |-> "Main view active"]
  ELSE IF Includes(cmd, "calibrate") \/ Includes(cmd, "calibration")
  THEN [r |-> SetState(r, "view", "calibration"), feedback |-> "Alignment view active"]
  ELSE IF Includes(cmd, "settings") \/ Includes(cmd, "configure")
  THEN [r |-> SetState(r, "view", "settings"), feedback |-> "Settings loaded"]
  ELSE IF Includes(cmd, "start") /\ viewRef = "calibration"
  THEN [r |-> StartAutoCalibration(r), feedback |-> ""]
  ELSE IF Includes(cmd, "start tracking") \/ Includes(cmd, "enable tracking")
  THEN [r |-> SetState(r, "isTrackingEnabled", TRUE), feedback |-> "Tracker active"]
  ELSE IF Includes(cmd, "stop tracking") \/ Includes(cmd, "pause")
  THEN [r |-> SetState(r, "isTrackingEnabled", FALSE), feedback |-> "Paused"]
  ELSE IF Includes(cmd, "precision") \/ Includes(cmd, "slow mode")
  THEN [r |-> SetState(r, "precisionMode", ~precisionModeRef),
        feedback |-> IF ~precisionModeRef THEN "Precision active"
                     ELSE "Normal speed"]
  ELSE IF Includes(cmd, "reset")
  THEN [r |-> [SetToast(r, "Calibration data reset.") EXCEPT
                 !.calibData = "cleared"],
        feedback |-> "Data reset"]
  ELSE IF Includes(cmd, "click") \/ Includes(cmd, "select")
  THEN IF ElementAt(gazeRef)
       THEN [r |-> [r EXCEPT !.clickedAt = gazeRef], feedback |-> "Clicked"]
       ELSE [r |-> r, feedback |-> ""]
  ELSE [r |-> r, feedback |-> ""]

\* The command grammar: the first rule that matches decides.  The result is
\* the record after the rule and the feedback text ("" for none).
Grammar(r, cmd) ==
  IF Includes(cmd, "dashboard") \/ Includes(cmd, "home")
  THEN [r |-> SetState(r, "view", "dashboard"), feedback |-> "Main view active"]
  ELSE IF Includes(cmd, "calibrate") \/ Includes(cmd, "calibration")
  THEN [r |-> SetState(r, "view", "calibration"), feedback |-> "Alignment view active"]
  ELSE IF Includes(cmd, "settings") \/ Includes(cmd, "configure")
  THEN [r |-> SetState(r, "view", "settings"), feedback |-> "Settings loaded"]
  ELSE IF Includes(cmd, "start tracking") \/ Includes(cmd, "enable tracking")
  THEN [r |-> SetState(r, "isTrackingEnabled", TRUE), feedback |-> "Tracker active"]
  ELSE IF Includes(cmd, "stop tracking") \/ Includes(cmd, "pause")
  THEN [r |-> SetState(r, "isTrackingEnabled", FALSE), feedback |-> "Paused"]
  ELSE IF Includes(cmd, "start") /\ viewRef = "calibration"
  THEN [r |-> StartAutoCalibration(r), feedback |-> ""]
  ELSE IF Includes(cmd, "precision") \/ Includes(cmd, "slow mode")
  THEN [r |-> SetState(r, "precisionMode", ~precisionModeRef),
        feedback |-> IF ~precisionModeRef THEN "Precision active"
                     ELSE "Normal speed"]
  ELSE IF Includes(cmd, "reset")
  THEN [r |-> [SetToast(r, "Calibration data reset.") EXCEPT
                 !.calibData = "cleared"],
        feedback |-> "Data reset"]
  ELSE IF Includes(cmd, "click") \/ Includes(cmd, "select")
  THEN IF ElementAt(gazeRef)
       THEN [r |-> [r EXCEPT !.clickedAt = gazeRef], feedback |-> "Clicked"]
       ELSE [r |-> r, feedback |-> ""]
  ELSE [r |-> r, feedback |-> ""]

\* The feedback handling without the safety timeout
Feedback_NoTimer(r, feedback) ==
  [SetToast(r, feedback) EXCEPT
     !.lastCommandTime = now,
     !.ignoreInput = TRUE,
     !.synthQueue = <<Utterance(feedback, TRUE)>>]

\* The voice feedback handling at the end of the callback
Feedback(r, feedback) ==
  [SetToast(r, feedback) EXCEPT
     !.lastCommandTime = now,
     !.ignoreInput = TRUE,
     !.synthQueue = <<Utterance(feedback, TRUE)>>,
     !.unmuteTimers = r.unmuteTimers \cup {now + UnmuteDelay}]

\* The callback without its cooldown gate
VoiceCallback_NoCooldown(r, cmd) ==
  IF Speaking(r) THEN r
  ELSE IF r.dataCalibrating THEN CalibrationInterrupt(r, cmd)
  ELSE LET g == Grammar(r, cmd)
       IN IF g.feedback # "" THEN Feedback(g.r, g.feedback) ELSE g.r

\* The callback without its speaking gate
VoiceCallback_NoSpeakingGate(r, cmd) ==
  IF now - r.lastCommandTime < Cooldown THEN r
  ELSE IF r.dataCalibrating THEN CalibrationInterrupt(r, cmd)
  ELSE LET g == Grammar(r, cmd)
       IN IF g.feedback # "" THEN Feedback(g.r, g.feedback) ELSE g.r

\* The callback App passes to voiceService.start
VoiceCallback(r, cmd) ==
  IF now - r.lastCommandTime < Cooldown THEN r
  ELSE IF Speaking(r) THEN r
  ELSE IF r.dataCalibrating THEN CalibrationInterrupt(r, cmd)
  ELSE LET g == Grammar(r, cmd)
       IN IF g.feedback # "" THEN Feedback(g.r, g.feedback) ELSE g.r

\* recognition.onresult with one final result
OnResult(r, cmd) ==
  IF r.ignoreInput THEN r ELSE VoiceCallback(r, cmd)

\* ------------------------------------------------------------------------
\* VoiceService: the recognition session
\* ------------------------------------------------------------------------

\* The fields of the service its methods read and write, with the state of
\* the browser's session.
Svc ==
  [isListening |-> isListening, shouldBeListening |-> shouldBeListening,
   recognition |-> hasRecognition, provider |-> provider,
   lastCall |-> lastCall]

ApplySvc(s) ==
  /\ isListening' = s.isListening
  /\ shouldBeListening' = s.shouldBeListening
  /\ provider' = s.provider
  /\ lastCall' = s.lastCall
  /\ UNCHANGED hasRecognition

\* recognition.start() of the browser throws InvalidStateError unless the
\* session is idle.
StartThrows(s) == s.provider # "idle"

\* start(callback) where the InvalidStateError of recognition.start() leaves
\* isListening as it was
ServiceStart_NoResync(s) ==
  LET t == [s EXCEPT !.shouldBeListening = TRUE]
  IN IF ~t.recognition THEN [t EXCEPT !.lastCall = "absent"]
     ELSE IF t.isListening THEN [t EXCEPT !.lastCall = "skipped"]
     ELSE IF StartThrows(t) THEN [t EXCEPT !.lastCall = "absorbed"]
     ELSE [t EXCEPT !.provider = "running", !.isListening = TRUE,
                    !.lastCall = "started"]

\* start(callback) where a missing recognition is not tested
ServiceStart_NoApiTest(s) ==
  LET t == [s EXCEPT !.shouldBeListening = TRUE]
  IN IF t.isListening THEN [t EXCEPT !.lastCall = "skipped"]
     ELSE IF StartThrows(t)
     THEN [t EXCEPT !.isListening = TRUE, !.lastCall = "absorbed"]
     ELSE [t EXCEPT !.provider = "running", !.isListening = TRUE,
                    !.lastCall = "started"]

\* VoiceService.start(callback).  lastCall tells which path it took:
\* "absent" (no recognition), "skipped" (already listening, the provider is
\* not called), "absorbed" (recognition.start() threw and the catch took
\* it), "started".
ServiceStart(s) ==
  LET t == [s EXCEPT !.shouldBeListening = TRUE]
  IN IF ~t.recognition THEN [t EXCEPT !.lastCall = "absent"]
     ELSE IF t.isListening THEN [t EXCEPT !.lastCall = "skipped"]
     ELSE IF StartThrows(t)
     THEN [t EXCEPT !.isListening = TRUE, !.lastCall = "absorbed"]
     ELSE [t EXCEPT !.provider = "running", !.isListening = TRUE,
                    !.lastCall = "started"]

\* VoiceService.stop(): recognition.stop() ends a running session, whose
\* 'end' event follows.
ServiceStop(s) ==
  LET t == [s EXCEPT !.shouldBeListening = FALSE, !.lastCall = "stopped"]
  IN IF t.recognition /\ t.isListening
     THEN [t EXCEPT !.isListening = FALSE,
                    !.provider = IF @ = "running" THEN "stopping" ELSE @]
     ELSE t

\* recognition.onend that restarts without looking at shouldBeListening
OnEnd_AlwaysRestarts(s) ==
  LET t == [s EXCEPT !.isListening = FALSE, !.lastCall = "ended"]
  IN IF StartThrows(t) THEN t
     ELSE [t EXCEPT !.provider = "running", !.isListening = TRUE,
                    !.lastCall = "restarted"]

\* recognition.onend that never restarts
OnEnd_NoRestart(s) ==
  [s EXCEPT !.isListening = FALSE, !.lastCall = "ended"]

\* recognition.onend, called with the session idle again: the restart when
\* voice is still meant to be on
OnEnd(s) ==
  LET t == [s EXCEPT !.isListening = FALSE, !.lastCall = "ended"]
  IN IF ~t.shouldBeListening THEN t
     ELSE IF StartThrows(t) THEN t
     ELSE [t EXCEPT !.provider = "running", !.isListening = TRUE,
                    !.lastCall = "restarted"]

\* The kinds of error the provider reports
ProviderErrors == {"no-speech", "not-allowed", "network"}

\* recognition.onerror
OnError(s, e) ==
  IF e = "not-allowed"
  THEN [s EXCEPT !.shouldBeListening = FALSE, !.isListening = FALSE,
                 !.lastCall = "denied"]
  ELSE [s EXCEPT !.lastCall = "failed"]

\* What the service does not touch
ServiceFrame ==
  UNCHANGED <<now, dwellVars, appState, queued, appDirty, appRefs,
              ignoreInput, synthQueue, enginePaused, calibData, initialized,
              innerHeight, position, smoothing, gazeListener, initAttempts,
              history>>

\* The provider ends the session, by itself or after stop() or an error:
\* the 'end' event.
ProviderEnds ==
  /\ provider \in {"running", "stopping"}
  /\ ApplySvc(OnEnd([Svc EXCEPT !.provider = "idle"]))
  /\ ServiceFrame

\* The provider reports an error; its 'end' event follows.
ProviderError(e) ==
  /\ provider = "running"
  /\ ApplySvc(OnError([Svc EXCEPT !.provider = "stopping"], e))
  /\ ServiceFrame

\* The onClick of the voice switch of the dashboard
ToggleVoice ==
  /\ Rendered
  /\ view = "dashboard"
  /\ Apply(SetState(Cur, "isVoiceEnabled", ~queued.isVoiceEnabled))
  /\ HandlerFrame
  /\ UNCHANGED <<scrollRef, scrollFrames, lastRecord, scrolled>>

\* The history of the callback: a transcript that changed something was
\* acted on.
Acted(before, after) ==
  IF after # before THEN [after EXCEPT !.actedAt = now] ELSE after

\* The session delivers results: while it runs, and the last ones while it
\* stops.
Delivering == provider \in {"running", "stopping"}

\* The speech provider delivers a final transcript.
Transcript(cmd) ==
  /\ Delivering
  /\ Apply(Acted(Cur, OnResult(Cur, cmd)))
  /\ HandlerFrame
  /\ UNCHANGED <<scrollRef, scrollFrames, lastRecord, scrolled>>

\* The 3000 ms safety timeout of a feedback
UnmuteTimeout ==
  /\ now \in unmuteTimers
  /\ unmuteTimers' = unmuteTimers \ {now}
  /\ ignoreInput' = FALSE
  /\ HandlerFrame
  /\ UNCHANGED <<queued, appDirty, lastCommandTime, synthQueue, enginePaused,
                 calibData, dataCalibrating, history, scrollRef, scrollFrames>>

\* ------------------------------------------------------------------------
\* App: gaze samples and edge scrolling
\* ------------------------------------------------------------------------
\* handleSmartFeatures that tests the top edge first
HandleSmartFeatures_TopFirst(y, h) ==
  IF dataCalibrating
  THEN [action |-> "same", ref |-> scrollRef, frames |-> scrollFrames]
  ELSE IF y < scrollThreshold
  THEN IF scrollRef = 0
       THEN LET id == FreshFrameId(scrollFrames, scrollRef)
            IN [action |-> "up", ref |-> id,
                frames |-> scrollFrames \cup {[id |-> id, top |-> -ScrollStep]}]
       ELSE [action |-> "up", ref |-> scrollRef, frames |-> scrollFrames]
  ELSE IF y > h - scrollThreshold
  THEN IF scrollRef = 0
       THEN LET id == FreshFrameId(scrollFrames, scrollRef)
            IN [action |-> "down", ref |-> id,
                frames |-> scrollFrames \cup {[id |-> id, top |-> ScrollStep]}]
       ELSE [action |-> "down", ref |-> scrollRef, frames |-> scrollFrames]
  ELSE [action |-> "none", ref |-> 0,
        frames |-> IF scrollRef # 0 THEN CancelFrame(scrollFrames, scrollRef)
                   ELSE scrollFrames]

\* handleSmartFeatures(x, y): the new scrollAction to queue ("same" for no
\* setScrollAction call), scrollRef and the requested scrollLoop frames.
HandleSmartFeatures(y, h) ==
  IF dataCalibrating
  THEN [action |-> "same", ref |-> scrollRef, frames |-> scrollFrames]
  ELSE IF y > h - scrollThreshold
  THEN IF scrollRef = 0
       THEN LET id == FreshFrameId(scrollFrames, scrollRef)
            IN [action |-> "down", ref |-> id,
                frames |-> scrollFrames \cup {[id |-> id, top |-> ScrollStep]}]
       ELSE [action |-> "down", ref |-> scrollRef, frames |-> scrollFrames]
  ELSE IF y < scrollThreshold
  THEN IF scrollRef = 0
       THEN LET id == FreshFrameId(scrollFrames, scrollRef)
            IN [action |-> "up", ref |-> id,
                frames |-> scrollFrames \cup {[id |-> id, top |-> -ScrollStep]}]
       ELSE [action |-> "up", ref |-> scrollRef, frames |-> scrollFrames]
  ELSE [action |-> "none", ref |-> 0,
        frames |-> IF scrollRef # 0 THEN CancelFrame(scrollFrames, scrollRef)
                   ELSE scrollFrames]

\* The gaze listener installed by initTracking; its closure captured
\* settings.isTrackingEnabled of the render that started that initTracking.
GazeListener(captured, x, y) ==
  IF captured
  THEN LET f == HandleSmartFeatures(y, innerHeight)
           q == [queued EXCEPT !.gaze = [x |-> x, y |-> y],
                               !.scrollAction = IF f.action = "same" THEN @
                                                ELSE f.action]
       IN /\ queued' = q
          /\ appDirty' = TRUE
          /\ scrollRef' = f.ref
          /\ scrollFrames' = f.frames
  ELSE UNCHANGED <<queued, appDirty, scrollRef, scrollFrames>>

\* webgazer delivers a prediction to the listener of the service; a paused
\* engine delivers none.
GazeSample(x, y) ==
  /\ initialized
  /\ ~enginePaused
  /\ gazeListener.installed
  /\ GazeListener(gazeListener.captured, x, y)
  /\ HandlerFrame
  /\ UNCHANGED <<lastCommandTime, unmuteTimers, ignoreInput, synthQueue,
                 enginePaused, calibData, dataCalibrating, history>>

\* scrollLoop, run by the browser as an animation frame
ScrollLoop(f) ==
  LET rest == scrollFrames \ {f}
      id == FreshFrameId(rest, scrollRef)
  IN /\ scrolled' = f.top
     /\ scrollFrames' = rest \cup {[id |-> id, top |-> f.top]}
     /\ scrollRef' = id

ScrollFrame(f) ==
  /\ f \in scrollFrames
  /\ ScrollLoop(f)
  /\ HandlerFrame
  /\ UNCHANGED <<queued, appDirty, lastCommandTime, unmuteTimers, ignoreInput,
                 synthQueue, enginePaused, calibData, dataCalibrating,
                 lastRecord, visited, timerTime, cancelled,
                 clickedAt, actedAt, toastShownAt>>

\* toggleTracking, the onClick of the tracking DwellButton of the dashboard
ToggleTracking ==
  /\ Rendered
  /\ view = "dashboard"
  /\ Len(initAttempts) < MaxAttempts
  /\ Apply(SetState(Cur, "isTrackingEnabled", ~queued.isTrackingEnabled))
  /\ HandlerFrame
  /\ UNCHANGED <<scrollRef, scrollFrames, lastRecord, scrolled>>

\* ------------------------------------------------------------------------
\* App: render and effects
\* ------------------------------------------------------------------------

\* The sequencer effect that leaves data-calibrating alone
SequencerEffect_KeepsGate(newState, newIndex) ==
  IF newState # "running"
  THEN /\ dataCalibrating' = dataCalibrating
       /\ progressInterval' = NoTimer
       /\ pointTimeout' = NoTimer
       /\ visited' = visited
  ELSE /\ dataCalibrating' = dataCalibrating
       /\ progressInterval' = [on |-> TRUE, startTime |-> now, idx |-> newIndex,
                               next |-> now + SampleInterval]
       /\ pointTimeout' = [on |-> TRUE, idx |-> newIndex,
                           deadline |-> now + settleTime + recordTime]
       /\ visited' = Append(visited, newIndex)

\* The sequencer effect without its cleanup
SequencerEffect_NoCleanup(newState, newIndex) ==
  IF newState # "running"
  THEN /\ dataCalibrating' = FALSE
       /\ progressInterval' = progressInterval
       /\ pointTimeout' = pointTimeout
       /\ visited' = visited
  ELSE /\ dataCalibrating' = dataCalibrating
       /\ progressInterval' = [on |-> TRUE, startTime |-> now, idx |-> newIndex,
                               next |-> now + SampleInterval]
       /\ pointTimeout' = [on |-> TRUE, idx |-> newIndex,
                           deadline |-> now + settleTime + recordTime]
       /\ visited' = Append(visited, newIndex)

\* The sequencer effect, deps [calibState, activePointIndex]: the cleanup of
\* the previous run (which had timers only if it ran with 'running'), then
\* the body with the values of the new render.
SequencerEffect(newState, newIndex) ==
  IF newState # "running"
  THEN /\ dataCalibrating' = FALSE
       /\ progressInterval' = NoTimer
       /\ pointTimeout' = NoTimer
       /\ visited' = visited
  ELSE /\ dataCalibrating' = dataCalibrating
       /\ progressInterval' = [on |-> TRUE, startTime |-> now, idx |-> newIndex,
                               next |-> now + SampleInterval]
       /\ pointTimeout' = [on |-> TRUE, idx |-> newIndex,
                           deadline |-> now + settleTime + recordTime]
       /\ visited' = Append(visited, newIndex)

\* The two effects with deps [settings.isTrackingEnabled]: the cleanup of
\* the first pauses the engine, its body starts initTracking(), which stops
\* at its first await; the second resumes or pauses the engine.
TrackingEffects(enabled) ==
  /\ enginePaused' = ~enabled
  /\ initAttempts' = Append(initAttempts,
                            [captured |-> enabled, pc |-> "permission"])

\* The effect of the GazeCursor child, deps [x, y, enabled, smoothing,
\* isPrecisionMode]: the cleanup cancels the requested frame, the body
\* requests one when enabled.
CursorEffect(enabled) ==
  cursorFrame' = enabled

\* The effect of the Toast child, deps [onClose]: App passes a new arrow
\* function as onClose on every render, so every render of App with a toast
\* runs the cleanup (clearTimeout) and the body (setTimeout(onClose, 3000));
\* when toast is null the Toast is unmounted and its cleanup runs.
ToastEffect(newToast) ==
  toastTimer' = IF newToast # "" THEN [on |-> TRUE, deadline |-> now + ToastDelay]
                ELSE NoTimer

\* The timeout of the Toast fires: onClose, i.e. setToast(null)
ToastTimeout ==
  /\ toastTimer.on
  /\ toastTimer.deadline = now
  /\ toastTimer' = NoTimer
  /\ queued' = [queued EXCEPT !.toast = ""]
  /\ appDirty' = TRUE
  /\ UNCHANGED <<now, dwellVars, appState, gazeRef, viewRef, precisionModeRef,
                 lastCommandTime, scrollRef, scrollFrames, dataCalibrating,
                 progressInterval, pointTimeout, unmuteTimers, cursorFrame,
                 services, history>>

\* The voice effect, deps [settings.isVoiceEnabled]
VoiceEffect(enabled) ==
  ApplySvc(IF enabled THEN ServiceStart(Svc) ELSE ServiceStop(Svc))

\* React renders App: the queued values are committed and every effect
\* whose dependencies changed runs.
AppCommit ==
  /\ appDirty
  /\ view' = queued.view
  /\ isTrackingEnabled' = queued.isTrackingEnabled
  /\ isVoiceEnabled' = queued.isVoiceEnabled
  /\ gaze' = queued.gaze
  /\ toast' = queued.toast
  /\ scrollAction' = queued.scrollAction
  /\ precisionMode' = queued.precisionMode
  /\ calibState' = queued.calibState
  /\ activePointIndex' = queued.activePointIndex
  /\ calibProgress' = queued.calibProgress
  /\ appDirty' = FALSE
  /\ gazeRef' = queued.gaze
  /\ viewRef' = queued.view
  /\ precisionModeRef' = queued.precisionMode
  /\ ToastEffect(queued.toast)
  /\ IF queued.isTrackingEnabled # isTrackingEnabled
     THEN TrackingEffects(queued.isTrackingEnabled)
     ELSE UNCHANGED <<enginePaused, initAttempts>>
  /\ IF queued.isVoiceEnabled # isVoiceEnabled
     THEN VoiceEffect(queued.isVoiceEnabled)
     ELSE UNCHANGED <<isListening, voiceVars>>
  /\ IF \/ queued.gaze # gaze
        \/ queued.isTrackingEnabled # isTrackingEnabled
        \/ queued.precisionMode # precisionMode
     THEN CursorEffect(queued.isTrackingEnabled)
     ELSE UNCHANGED cursorFrame
  /\ IF queued.calibState # calibState
        \/ queued.activePointIndex # activePointIndex
     THEN SequencerEffect(queued.calibState, queued.activePointIndex)
     ELSE UNCHANGED <<dataCalibrating, progressInterval, pointTimeout, visited>>
  /\ UNCHANGED <<now, dwellVars, queued, lastCommandTime, scrollRef,
                 scrollFrames, unmuteTimers, ignoreInput, synthQueue,
                 calibData, initialized, innerHeight, position, smoothing, gazeListener,
                 lastRecord, timerTime, cancelled, clickedAt,
                 scrolled, actedAt, toastShownAt>>

\* ------------------------------------------------------------------------
\* GazeCursor (src/components/GazeCursor.tsx)
\* ------------------------------------------------------------------------
\* The position is a pair of doubles in the code; here it is kept in
\* 1/PosScale px and every product is rounded to the nearest unit.
Abs(n) == IF n < 0 THEN -n ELSE n
Max(a, b) == IF a >= b THEN a ELSE b

\* What precision mode adds to the smoothing
PrecisionSmoothing == 15

\* The largest value of the smoothing slider
SliderMax == 10

\* Precision mode taking the 15 off the smoothing
EffectiveSmoothing_Faster(sm, prec) ==
  IF prec THEN sm - PrecisionSmoothing ELSE sm

\* effectiveSmoothing
EffectiveSmoothing(sm, prec) == IF prec THEN sm + PrecisionSmoothing ELSE sm

\* factor = 0.1 + 0.5 / max(effectiveSmoothing, 1) = (m + 5) / (10 m)
FactorNum(eff) == Max(eff, 1) + 5
FactorDen(eff) == 10 * Max(eff, 1)

\* d * factor
Scaled(d, eff) ==
  LET q == (2 * Abs(d) * FactorNum(eff) + FactorDen(eff))
             \div (2 * FactorDen(eff))
  IN IF d < 0 THEN -q ELSE q

\* The updater without the snap
AnimateStep_NoSnap(prev, x, y, sm, prec) ==
  LET eff == EffectiveSmoothing(sm, prec)
      dx == x * PosScale - prev.x
      dy == y * PosScale - prev.y
  IN [x |-> prev.x + Scaled(dx, eff), y |-> prev.y + Scaled(dy, eff)]

\* The updater animate passes to setPosition
AnimateStep(prev, x, y, sm, prec) ==
  LET eff == EffectiveSmoothing(sm, prec)
      dx == x * PosScale - prev.x
      dy == y * PosScale - prev.y
  IN IF Abs(dx) < PosScale /\ Abs(dy) < PosScale
     THEN prev
     ELSE [x |-> prev.x + Scaled(dx, eff), y |-> prev.y + Scaled(dy, eff)]

\* animate, run by the browser as an animation frame; it requests the next
\* frame.  x, y, smoothing and isPrecisionMode are the props of the render
\* whose effect requested the loop.
CursorAnimate ==
  /\ cursorFrame
  /\ position' = AnimateStep(position, gaze.x, gaze.y, smoothing, precisionMode)
  /\ UNCHANGED <<now, dwellVars, appState, queued, appDirty, appRefs,
                 ignoreInput, isListening, voiceVars, synthQueue, enginePaused,
                 calibData, initialized, innerHeight, smoothing,
                 gazeListener, initAttempts, history>>

\* ------------------------------------------------------------------------
\* App: initTracking(), an async function
\* ------------------------------------------------------------------------
RemoveAt(seq, i) == SubSeq(seq, 1, i - 1) \o SubSeq(seq, i + 1, Len(seq))

\* await eyeTrackingService.checkCameraPermission() returns
PermissionResult(i, granted) ==
  /\ i \in 1..Len(initAttempts)
  /\ initAttempts[i].pc = "permission"
  /\ IF granted
     THEN /\ initAttempts' = [initAttempts EXCEPT ![i].pc = "init"]
          /\ UNCHANGED <<queued, appDirty, toastShownAt>>
     ELSE /\ initAttempts' = RemoveAt(initAttempts, i)
          /\ queued' = [queued EXCEPT !.toast = "Camera access denied. Please enable camera."]
          /\ appDirty' = TRUE
          /\ toastShownAt' = now
  /\ UNCHANGED <<now, dwellVars, appState, appRefs, ignoreInput, isListening, voiceVars,
                 synthQueue, enginePaused, calibData, initialized,
                 innerHeight, position, smoothing, gazeListener, lastRecord,
                 visited, timerTime, cancelled, clickedAt, scrolled, actedAt>>

\* await eyeTrackingService.init() returns or throws; init() returns at once
\* when the service is initialized already.
InitResult(i, ok) ==
  /\ i \in 1..Len(initAttempts)
  /\ initAttempts[i].pc = "init"
  /\ initialized => ok
  /\ initAttempts' = RemoveAt(initAttempts, i)
  /\ IF ok
     THEN /\ initialized' = TRUE
          /\ gazeListener' = [installed |-> TRUE,
                            captured |-> initAttempts[i].captured]
          /\ UNCHANGED <<queued, appDirty, toastShownAt>>
     ELSE /\ queued' = [queued EXCEPT !.toast = "Failed to start tracking. Check console."]
          /\ appDirty' = TRUE
          /\ toastShownAt' = now
          /\ UNCHANGED <<initialized, gazeListener>>
  /\ UNCHANGED <<now, dwellVars, appState, appRefs, ignoreInput, isListening, voiceVars,
                 synthQueue, enginePaused, calibData, innerHeight, position,
                 smoothing, lastRecord, visited, timerTime, cancelled,
                 clickedAt, scrolled, actedAt>>

\* ------------------------------------------------------------------------
\* App: the clock
\* ------------------------------------------------------------------------
Deadlines ==
  (IF progressInterval.on THEN {progressInterval.next} ELSE {})
  \cup (IF pointTimeout.on THEN {pointTimeout.deadline} ELSE {})
  \cup unmuteTimers

\* Time passes up to t.  A pending render and the timers that are due come
\* first, and no timer is passed over.
Tick(t, maxTime) ==
  /\ ~appDirty
  /\ t > now
  /\ t <= maxTime
  /\ \A d \in Deadlines : d > now /\ t <= d
  /\ now' = t
  /\ synthQueue' = [i \in DOMAIN synthQueue |->
                       [synthQueue[i] EXCEPT !.fresh = FALSE]]
  /\ UNCHANGED <<dwellVars, appState, queued, appDirty, appRefs, ignoreInput,
                 isListening, voiceVars, enginePaused, calibData, initialized,
                 innerHeight, position, smoothing, gazeListener,
                 initAttempts, history>>

\* ------------------------------------------------------------------------
\* SpecCalib: the calibration sequencer, started and restarted by the
\* DwellButtons of the calibration view
\* ------------------------------------------------------------------------
CalibIdleStep == settleTime + recordTime

CalibNext ==
  \/ \E v \in {"dashboard", "calibration"} : ClickNav(v)
  \/ ClickStart
  \/ IntervalTick
  \/ PointTimeout
  \/ UtteranceEnd
  \/ AppCommit
  \/ \E t \in Deadlines \cup {now + CalibIdleStep} : Tick(t, CalibMaxTime)

InitCalib ==
  /\ now = Epoch
  /\ DwellIdle
  /\ \E tracking \in BOOLEAN : AppMounted(tracking, FALSE, 600)
SpecCalib == InitCalib /\ [][CalibNext]_vars

\* ------------------------------------------------------------------------
\* SpecScroll: gaze samples, edge scrolling, the tracking toggle and the
\* calibration started by the DwellButton (voice off).  The specification
\* looks at what can happen at one instant of the clock: the timers of a
\* calibration started in it stay pending.
\* ------------------------------------------------------------------------
GazeYs == {60, 300, 540}

ScrollNext ==
  \/ \E v \in {"dashboard", "calibration"} : ClickNav(v)
  \/ ClickStart
  \/ ToggleTracking
  \/ \E y \in GazeYs : GazeSample(400, y)
  \/ \E f \in scrollFrames : ScrollFrame(f)
  \/ \E i \in DOMAIN initAttempts, g \in BOOLEAN : PermissionResult(i, g)
  \/ \E i \in DOMAIN initAttempts, ok \in BOOLEAN : InitResult(i, ok)
  \/ AppCommit

InitScroll ==
  /\ now = Epoch
  /\ DwellIdle
  /\ \E tracking \in BOOLEAN : AppMounted(tracking, FALSE, 600)
SpecScroll == InitScroll /\ [][ScrollNext]_vars

\* ------------------------------------------------------------------------
\* SpecVoice: the voice command listener with the calibration sequencer
\* ------------------------------------------------------------------------
VoiceTranscripts ==
  {{}, {"calibration"}, {"start"}, {"stop"}, {"settings"}}

VoiceIdleStep == Cooldown \div 2

VoiceNext ==
  \/ \E cmd \in VoiceTranscripts : Transcript(cmd)
  \/ ClickStart
  \/ UnmuteTimeout
  \/ UtteranceEnd
  \/ IntervalTick
  \/ PointTimeout
  \/ AppCommit
  \/ \E t \in Deadlines \cup {now + VoiceIdleStep} : Tick(t, VoiceMaxTime)

InitVoice ==
  /\ now = Epoch
  /\ DwellIdle
  /\ AppMounted(TRUE, TRUE, 600)
SpecVoice == InitVoice /\ [][VoiceNext]_vars

\* ------------------------------------------------------------------------
\* SpecLerp: the animation loop of GazeCursor with no new sample: any
\* smoothing of the slider, precision mode on or off, a target and a
\* position the cursor is at.  The browser keeps running requested frames.
\* ------------------------------------------------------------------------
LerpSmoothings == {1, 5, 10}
LerpTargets == {[x |-> 0, y |-> 0], [x |-> 400, y |-> 300], [x |-> 3, y |-> 599]}
LerpStarts ==
  {[x |-> 0, y |-> 0], [x |-> 999 * PosScale, y |-> 10 * PosScale],
   [x |-> 400 * PosScale + 1, y |-> 299 * PosScale]}
InitLerp ==
  /\ now = Epoch
  /\ DwellIdle
  /\ \E g \in LerpTargets, pos \in LerpStarts, sm \in LerpSmoothings,
        prec \in BOOLEAN :
       AppAt(TRUE, FALSE, 600, TRUE, g, prec, pos, sm)
LerpNext == CursorAnimate
SpecLerp == InitLerp /\ [][LerpNext]_vars /\ WF_vars(CursorAnimate)

\* ------------------------------------------------------------------------
\* SpecCursor: gaze samples, the cursor following them and the voice click,
\* at one instant of the clock.
\* ------------------------------------------------------------------------
\* The gaze moves by a few pixels around the left edge of the viewport, at
\* mid height; the cursor starts at rest on the first of these points.
CursorRest == [x |-> 1, y |-> 300]
CursorGazes == {CursorRest, [x |-> 3, y |-> 300], [x |-> -1, y |-> 300]}
CursorTranscripts == {{"click"}, {"select"}}
InitCursor ==
  /\ now = Epoch
  /\ DwellIdle
  /\ AppAt(TRUE, TRUE, 600, TRUE, CursorRest, FALSE,
           [x |-> CursorRest.x * PosScale, y |-> CursorRest.y * PosScale],
           DefaultSmoothing)
CursorNext ==
  \/ \E g \in CursorGazes : GazeSample(g.x, g.y)
  \/ CursorAnimate
  \/ AppCommit
  \/ \E cmd \in CursorTranscripts : Transcript(cmd)
SpecCursor == InitCursor /\ [][CursorNext]_vars

\* ------------------------------------------------------------------------
\* SpecGrammar: the command grammar over every transcript with at most two
\* of its keywords; the clock runs to a second command after the cooldown
\* of the first.
\* ------------------------------------------------------------------------
GrammarMaxTime == 6000
GrammarTranscripts ==
  {cmd \in {{}} \cup {{a, b} : a \in Keywords, b \in Keywords} :
     IsTranscript(cmd)}
GrammarGazes == {[x |-> 400, y |-> 300], [x |-> -50, y |-> 300]}
InitGrammar ==
  /\ now = Epoch
  /\ DwellIdle
  /\ \E g \in GrammarGazes :
       AppAt(TRUE, TRUE, 600, TRUE, g, FALSE,
             [x |-> g.x * PosScale, y |-> g.y * PosScale], DefaultSmoothing)
GrammarNext ==
  \/ \E cmd \in GrammarTranscripts : Transcript(cmd)
  \/ UtteranceEnd
  \/ AppCommit
  \/ \E t \in Deadlines \cup {now + Cooldown} : Tick(t, GrammarMaxTime)
SpecGrammar == InitGrammar /\ [][GrammarNext]_vars

\* ---- SpecService: VoiceService under the voice switch of App, under any
\* other caller of its exported start() and stop(), and under a provider
\* that ends and fails when it likes; with and without a speech API.  No
\* clock.
CallStart ==
  /\ ApplySvc(ServiceStart(Svc))
  /\ ServiceFrame

CallStop ==
  /\ ApplySvc(ServiceStop(Svc))
  /\ ServiceFrame

ServiceTranscripts == {{"dashboard"}, {"stop"}}
InitService ==
  /\ now = Epoch
  /\ DwellIdle
  /\ \E speech \in BOOLEAN, voice \in BOOLEAN :
       AppOn(speech, FALSE, voice, 600, FALSE, Origin, FALSE, Origin,
             DefaultSmoothing)
ServiceNext ==
  \/ ToggleVoice
  \/ AppCommit
  \/ CallStart
  \/ CallStop
  \/ ProviderEnds
  \/ \E e \in ProviderErrors : ProviderError(e)
  \/ \E cmd \in ServiceTranscripts : Transcript(cmd)
SpecService == InitService /\ [][ServiceNext]_vars

\* ---- SpecNav: a navigation DwellButton of the sidebar, which App renders
\* in every view, while App runs a calibration.  The button and App share
\* the clock; a render of App hands the button a new onClick closure
\* (NavRender); the onClick itself, setView(item.id), is counted in
\* activations.
NavDwellTime == 1500
NavFrameStep == 500
NavMaxTime == 6000

NavRender ==
  /\ ~appDirty
  /\ ParentRender(FALSE, dwellTimeMs, TRUE)

NavTick(t) ==
  /\ ~dwellDirty
  /\ Tick(t, NavMaxTime)

\* The button as it mounts, with the default dwellTimeMs
NavButtonInit ==
  /\ mouseOver = FALSE
  /\ focused = FALSE
  /\ isHovered = FALSE
  /\ progress = ZeroProgress
  /\ nextIsHovered = FALSE
  /\ nextProgress = ZeroProgress
  /\ dwellDirty = FALSE
  /\ disabled = FALSE
  /\ dwellTimeMs = NavDwellTime
  /\ startTimeRef = 0
  /\ requestRef = 0
  /\ rafQueue = {}
  /\ clicks = 0
  /\ activations = 0

InitNav ==
  /\ now = Epoch
  /\ NavButtonInit
  /\ AppMounted(TRUE, FALSE, 600)
NavNext ==
  \/ MouseEnter
  \/ DwellCommit
  \/ NavRender
  \/ \E f \in rafQueue : Animate(f)
  \/ ClickNav("calibration")
  \/ ClickStart
  \/ IntervalTick
  \/ PointTimeout
  \/ AppCommit
  \/ \E t \in Deadlines \cup {now + NavFrameStep} : NavTick(t)
SpecNav == InitNav /\ [][NavNext]_vars

\* ---- SpecSession: the calibration session with voice on, from the mounted
\* App and from a run that has just come to its last point, so that start,
\* cancel, completion and redo all happen within SessionMaxTime.
LastPointStart == Epoch + LastPointIndex * (settleTime + recordTime)
SessionMaxTime == 25000
SessionIdleStep == Cooldown \div 2

\* App mounted with tracking on at Epoch, the calibration view opened and
\* the calibration started at once: the state after the render that
\* committed the last point.
AppAtLastPoint(voice) ==
  /\ view = "calibration"
  /\ isTrackingEnabled = TRUE
  /\ isVoiceEnabled = voice
  /\ gaze = Origin
  /\ toast = ""
  /\ scrollAction = "none"
  /\ precisionMode = FALSE
  /\ calibState = "running"
  /\ activePointIndex = LastPointIndex
  /\ calibProgress = ZeroProgress
  /\ queued = [view |-> "calibration", isTrackingEnabled |-> TRUE,
               isVoiceEnabled |-> voice, gaze |-> Origin,
               toast |-> "", scrollAction |-> "none", precisionMode |-> FALSE,
               calibState |-> "running", activePointIndex |-> LastPointIndex,
               calibProgress |-> ZeroProgress]
  /\ appDirty = FALSE
  /\ gazeRef = Origin
  /\ viewRef = "calibration"
  /\ precisionModeRef = FALSE
  /\ lastCommandTime = 0
  /\ scrollRef = 0
  /\ scrollFrames = {}
  /\ dataCalibrating = TRUE
  /\ progressInterval = [on |-> TRUE, idx |-> LastPointIndex,
                         next |-> LastPointStart + SampleInterval,
                         startTime |-> LastPointStart]
  /\ pointTimeout = [on |-> TRUE, idx |-> LastPointIndex,
                     deadline |-> LastPointStart + settleTime + recordTime]
  /\ unmuteTimers = {}
  /\ cursorFrame = TRUE
  /\ toastTimer = NoTimer
  /\ ignoreInput = TRUE
  /\ hasRecognition = TRUE
  /\ isListening = voice
  /\ shouldBeListening = voice
  /\ provider = IF voice THEN "running" ELSE "idle"
  /\ lastCall = "none"
  /\ synthQueue = <<>>
  /\ enginePaused = FALSE
  /\ calibData = "recorded"
  /\ initialized = FALSE
  /\ innerHeight = 600
  /\ position = Origin
  /\ smoothing = DefaultSmoothing
  /\ gazeListener = NoListener
  /\ initAttempts = <<[captured |-> TRUE, pc |-> "permission"]>>
  /\ lastRecord = [idx |-> LastPointIndex - 1,
                   elapsed |-> settleTime + recordTime - SampleInterval,
                   at |-> LastPointStart - SampleInterval,
                   px |-> CalibPx(LastPointIndex - 1, InnerWidth, 600)]
  /\ visited = [i \in 1..(LastPointIndex + 1) |-> i - 1]
  /\ timerTime = LastPointIndex * (settleTime + recordTime)
  /\ cancelled = FALSE
  /\ clickedAt = NoPoint
  /\ scrolled = 0
  /\ actedAt = 0
  /\ toastShownAt = 0

SessionTranscripts == {{"calibration"}, {"start"}, {"stop"}}
InitSession ==
  /\ now = LastPointStart
  /\ DwellIdle
  /\ \/ AppMounted(TRUE, TRUE, 600)
     \/ AppAtLastPoint(TRUE)
SessionNext ==
  \/ \E cmd \in SessionTranscripts : Transcript(cmd)
  \/ ClickStart
  \/ UnmuteTimeout
  \/ UtteranceEnd
  \/ IntervalTick
  \/ PointTimeout
  \/ AppCommit
  \/ \E t \in Deadlines \cup {now + SessionIdleStep} : Tick(t, SessionMaxTime)
SpecSession == InitSession /\ [][SessionNext]_vars

\* ---- SpecEdge: gaze samples at and around the two thresholds, in windows
\* higher than, as high as and lower than twice the threshold; tracking on,
\* no calibration.  No clock.
EdgeHeights == {200, 240, 600}
EdgeYs == {79, 80, 81, 100, 119, 120, 121, 300, 479, 480, 481}
InitEdge ==
  /\ now = Epoch
  /\ DwellIdle
  /\ \E h \in EdgeHeights :
       AppAt(TRUE, FALSE, h, TRUE, Origin, FALSE, Origin, DefaultSmoothing)
EdgeNext ==
  \/ \E y \in EdgeYs : GazeSample(400, y)
  \/ \E f \in scrollFrames : ScrollFrame(f)
  \/ AppCommit
SpecEdge == InitEdge /\ [][EdgeNext]_vars

\* ------------------------------------------------------------------------
\* Claims
\* ------------------------------------------------------------------------

\* A dwell session of the button that is live and has not reached
\* dwellTimeMs yet
SessionLive == startTimeRef # 0 /\ now - startTimeRef < dwellTimeMs

\* C1: when an animation frame of the DwellButton runs with the elapsed time
\* of the session at dwellTimeMs or beyond, onClick is invoked once, the
\* queued progress is 0, the hover state is queued false and the session
\* (start time, frame) is cleared; no more than one activation happens
\* between two mouseenter / focus events, and a button that is rendered not
\* hovered shows progress 0 and has no frame requested.
C1_DwellFiresOnce ==
  [][ /\ \A f \in rafQueue :
           (Animate(f) /\ startTimeRef # 0 /\ now - startTimeRef >= f.dwell)
             => /\ clicks' = clicks + 1
                /\ nextProgress' = ZeroProgress
                /\ nextIsHovered' = FALSE
                /\ startTimeRef' = 0
                /\ rafQueue' = {}
      /\ activations' <= 1
      /\ (~dwellDirty' /\ ~isHovered') => (IsZero(progress') /\ rafQueue' = {})
    ]_vars

\* C1 witness: the button fired once, the pointer is still over it, the
\* render after the activation is done and nothing is scheduled.
C1_Witness ==
  /\ clicks = 1
  /\ activations = 1
  /\ mouseOver
  /\ ~isHovered
  /\ ~dwellDirty
  /\ rafQueue = {}
  /\ now > 2

\* C2: a render that finds a live, unfinished session interrupted (the button
\* no longer hovered, or disabled) leaves no animation frame, queues progress
\* 0, clears the start time and invokes no onClick; neither does any step
\* between the mouseleave / blur and that render; a rendered button that is
\* not hovered or is disabled has progress 0, no frame and no start time.
C2_InterruptCancels ==
  [][ /\ (SessionLive /\ (~isHovered' \/ disabled'))
           => /\ rafQueue' = {}
              /\ nextProgress' = ZeroProgress
              /\ startTimeRef' = 0
              /\ clicks' = clicks
      /\ (SessionLive /\ ~nextIsHovered) => clicks' = clicks
      /\ (~dwellDirty' /\ (~isHovered' \/ disabled'))
           => (IsZero(progress') /\ rafQueue' = {} /\ startTimeRef' = 0)
    ]_vars

\* C2 witness: a session that had advanced (the committed progress is still
\* above 0) was interrupted by the pointer leaving: no frame, no start time,
\* progress 0 queued, no click.
C2_Witness ==
  /\ ~isHovered
  /\ ~mouseOver
  /\ ~focused
  /\ ~IsZero(progress)
  /\ IsZero(nextProgress)
  /\ startTimeRef = 0
  /\ rafQueue = {}
  /\ clicks = 0

\* The first n point indices in their order
FirstPoints(n) == [i \in 1..n |-> i - 1]

\* C3: the windows the sequencer opens in a run are for the points 0, 1, ...
\* in this order, each once; while a window is open its timeout is pending
\* for that point and the timer time spent is 2000 ms per earlier point; when
\* the state 'completed' is set all 9 points were visited and the timer time
\* is 9 x 2000 = 18000 ms.
C3_NinePointsInOrder ==
  /\ Len(visited) <= Len(CALIB_POINTS)
  /\ visited = FirstPoints(Len(visited))
  /\ pointTimeout.on
       => /\ visited # <<>>
          /\ pointTimeout.idx = visited[Len(visited)]
          /\ progressInterval.on /\ progressInterval.idx = pointTimeout.idx
          /\ timerTime = (Len(visited) - 1) * (settleTime + recordTime)
          /\ pointTimeout.deadline = progressInterval.startTime + settleTime + recordTime
  /\ queued.calibState = "completed"
       => /\ visited = FirstPoints(9)
          /\ timerTime = 18000

\* C3 witness: a run that completed
C3_Witness ==
  /\ calibState = "completed"
  /\ ~appDirty
  /\ visited = <<0, 1, 2, 3, 4, 5, 6, 7, 8>>
  /\ timerTime = 18000
  /\ now >= Epoch + 18000

\* C4: after calibration is cancelled while running, calibState is 'idle'
\* and recordCalibrationPoint is not called again until a new start: no
\* tick of the progress interval that was already scheduled records a
\* sample, and the point timeout does not move the sequencer on.
C4_NoRecordAfterCancel ==
  [][ /\ cancelled' => queued'.calibState = "idle"
      /\ (cancelled /\ cancelled') => lastRecord' = lastRecord ]_vars

\* C5: whenever calibState is 'running', scrollAction is none and no
\* scroll loop is scheduled.
C5_NoScrollWhileRunning ==
  calibState = "running" => (scrollAction = "none" /\ scrollFrames = {})

\* The direction a requested scrollLoop frame scrolls in
ScrollDirection(f) == IF f.top > 0 THEN "down" ELSE "up"

\* C6: at most one scroll loop is scheduled and the direction it scrolls in
\* is the scrollAction last set.
C6_OneLoopInScrollAction ==
  /\ Cardinality(scrollFrames) <= 1
  /\ \A f \in scrollFrames : ScrollDirection(f) = queued.scrollAction

\* C7: when isTrackingEnabled goes from true to false the cursor frame and
\* the scroll loop are cancelled and scrollAction becomes none; no scrollLoop
\* frame runs while tracking is disabled.
C7_DisableCancelsFrames ==
  [][ /\ (isTrackingEnabled /\ ~isTrackingEnabled')
           => (~cursorFrame' /\ scrollFrames' = {} /\ scrollAction' = "none")
      /\ (\E f \in scrollFrames : ScrollFrame(f)) => isTrackingEnabled ]_vars

C9_SpeakingGate ==
  [][ \A cmd \in VoiceTranscripts :
        (Transcript(cmd) /\ synthQueue # <<>>) => UNCHANGED vars ]_vars

\* Speech is playing and nothing else would stop a transcript: the input is
\* not muted, the cooldown is over, no calibration is running.
C9_Witness ==
  /\ isListening
  /\ synthQueue # <<>>
  /\ ~ignoreInput
  /\ now - lastCommandTime >= Cooldown
  /\ ~dataCalibrating

\* C10: while calibration is running a transcript with neither 'stop' nor
\* 'cancel' changes nothing: view, isTrackingEnabled, precisionMode,
\* calibState, activePointIndex, lastCommandTime and the mute flag stay, no
\* click is dispatched and nothing is spoken.
C10_OnlyCancelWhileRunning ==
  [][ \A cmd \in VoiceTranscripts :
        ( /\ Transcript(cmd)
          /\ calibState = "running"
          /\ ~Includes(cmd, "stop")
          /\ ~Includes(cmd, "cancel") )
          => UNCHANGED <<queued, lastCommandTime, ignoreInput, clickedAt,
                         synthQueue, dataCalibrating, cancelled>> ]_vars

\* Calibration is running and nothing else would stop a transcript: the
\* input is not muted, no speech is playing, the cooldown is over.
C10_Witness ==
  /\ isListening
  /\ calibState = "running"
  /\ dataCalibrating
  /\ ~ignoreInput
  /\ synthQueue = <<>>
  /\ now - lastCommandTime >= Cooldown

\* C11: in every state with calibState 'running' the voice input is muted
\* (VoiceService.ignoreInput is true).
C11_MutedWhileRunning ==
  calibState = "running" => ignoreInput

\* C12: whenever calibState is 'running' and a transcript with 'stop' is
\* delivered, onresult and the callback take the cancel branch: calibState
\* is set to 'idle' and the input is left unmuted; and a transcript takes
\* the cancel branch only while calibState is 'running'.
C12_CancelFromEveryRunningState ==
  /\ (calibState = "running" /\ queued.calibState = "running" /\ isListening)
       => LET r == OnResult(Cur, {"stop"})
          IN r.queued.calibState = "idle" /\ r.cancelled /\ ~r.ignoreInput
  /\ (isListening /\ OnResult(Cur, {"stop"}).cancelled /\ ~cancelled)
       => calibState = "running"

\* C13: startAutoCalibration from calibState 'idle' or 'completed' clears
\* the calibration data, sets isTrackingEnabled, calibState 'running',
\* activePointIndex 0, calibProgress 0 and mutes the voice input; the render
\* that follows starts the window of point 0, the same from 'completed'
\* (whatever index and progress were left) as from 'idle'.
C13_StartIsFresh ==
  [][ /\ ClickStart
        => /\ calibState \in {"idle", "completed"}
           /\ calibData' = "cleared"
           /\ queued'.isTrackingEnabled
           /\ queued'.calibState = "running"
           /\ queued'.activePointIndex = 0
           /\ queued'.calibProgress = ZeroProgress
           /\ ignoreInput'
           /\ dataCalibrating'
           /\ ~enginePaused'
      /\ (AppCommit /\ calibState # "running" /\ queued.calibState = "running")
        => /\ calibState' = "running"
           /\ isTrackingEnabled'
           /\ activePointIndex' = 0
           /\ calibProgress' = ZeroProgress
           /\ progressInterval' = [on |-> TRUE, startTime |-> now, idx |-> 0,
                                   next |-> now + SampleInterval]
           /\ pointTimeout' = [on |-> TRUE, idx |-> 0,
                               deadline |-> now + settleTime + recordTime]
           /\ visited' = <<0>>
           /\ timerTime' = 0 ]_vars

\* A redo: the toast of the completed run is still there, the new run is at
\* its first point.
C13_Witness ==
  /\ calibState = "running"
  /\ toast = "Calibration Successful!"
  /\ activePointIndex = 0
  /\ IsZero(calibProgress)
  /\ visited = <<0>>
  /\ pointTimeout.on
  /\ now >= Epoch + Len(CALIB_POINTS) * (settleTime + recordTime)

\* C14: when the window of the 9th point ends calibState becomes
\* 'completed' with calibProgress 100, the voice input is unmuted, the toast
\* and the 'Calibration complete' utterance are issued, in that one step and
\* in no other; while the state is 'completed' calibProgress stays 100 and
\* no interval is left to overwrite it.
C14_CompletedOnce ==
  [][ /\ (queued.calibState # "completed" /\ queued'.calibState = "completed")
        => /\ PointTimeout
           /\ pointTimeout.idx = LastPointIndex
           /\ queued'.calibProgress = FullProgress
           /\ ~ignoreInput'
           /\ queued'.toast = "Calibration Successful!"
           /\ synthQueue' = Append(synthQueue,
                                   Utterance("Calibration complete", FALSE))
           /\ ~progressInterval'.on
           /\ ~pointTimeout'.on
      /\ (queued.calibState = "completed" /\ queued'.calibState = "completed")
        => /\ queued'.calibProgress = FullProgress
           /\ queued'.toast = queued.toast
           /\ Len(synthQueue') <= Len(synthQueue)
           /\ ~progressInterval'.on
      /\ (PointTimeout /\ pointTimeout.idx = LastPointIndex)
        => queued'.calibState = "completed"
      /\ calibState' = "completed" => calibProgress' = FullProgress ]_vars

\* The completed run, rendered: progress 100, unmuted, the utterance queued
C14_Witness ==
  /\ calibState = "completed"
  /\ ~appDirty
  /\ calibProgress = FullProgress
  /\ ~ignoreInput
  /\ toast = "Calibration Successful!"
  /\ synthQueue = <<Utterance("Calibration complete", FALSE)>>
  /\ ~progressInterval.on

\* C15: recordCalibrationPoint is called only while calibState is
\* 'running', more than 800 ms after the window of the current point began,
\* on a 50 ms tick of the interval, with x% of the viewport width and y% of
\* the viewport height of CALIB_POINTS[activePointIndex].
C15_RecordOnlyInRecordPhase ==
  [][ lastRecord' # lastRecord
        => /\ calibState = "running"
           /\ progressInterval.on
           /\ progressInterval.idx = activePointIndex
           /\ lastRecord'.at = now
           /\ now - progressInterval.startTime > settleTime
           /\ now - progressInterval.startTime <= settleTime + recordTime
           /\ (now - progressInterval.startTime) % SampleInterval = 0
           /\ lastRecord'.idx = activePointIndex
           /\ lastRecord'.px.x = CALIB_POINTS[activePointIndex + 1].x * InnerWidth
           /\ lastRecord'.px.y = CALIB_POINTS[activePointIndex + 1].y * innerHeight
           /\ lastRecord'.px.den = 100 ]_vars

\* The first sample of the record phase of the last point, 850 ms into its
\* window
C15_Witness ==
  /\ calibState = "running"
  /\ activePointIndex = LastPointIndex
  /\ lastRecord.idx = LastPointIndex
  /\ lastRecord.at = now
  /\ lastRecord.elapsed = settleTime + SampleInterval
  /\ lastRecord.px = [x |-> 90 * InnerWidth, y |-> 90 * innerHeight, den |-> 100]

\* C16: a command with feedback mutes the voice input in the step that
\* dispatches it, hands the feedback to the synthesizer and sets the 3000 ms
\* timeout; the end of that utterance unmutes, and so does the timeout; an
\* input muted by a feedback is unmuted no later than 3000 ms after the
\* dispatch.
C16_MuteAndUnmute ==
  [][ /\ lastCommandTime' # lastCommandTime
        => /\ ignoreInput'
           /\ lastCommandTime' = now
           /\ (now + UnmuteDelay) \in unmuteTimers'
           /\ Len(synthQueue') = 1
           /\ synthQueue'[1].unmutes
           /\ synthQueue'[1].text = queued'.toast
      /\ (UtteranceEnd /\ Head(synthQueue).unmutes) => ~ignoreInput'
      /\ UnmuteTimeout => (~ignoreInput' /\ now \notin unmuteTimers')
      /\ \A t \in unmuteTimers' : t >= now'
      /\ (ignoreInput' /\ ~dataCalibrating')
        => /\ now' <= lastCommandTime' + UnmuteDelay
           /\ (lastCommandTime' + UnmuteDelay) \in unmuteTimers' ]_vars

\* The timeout unmuted the input 3000 ms after the dispatch while the
\* utterance had not finished.
C16_Witness ==
  /\ now = lastCommandTime + UnmuteDelay
  /\ ~ignoreInput
  /\ synthQueue # <<>>
  /\ Head(synthQueue).unmutes
  /\ unmuteTimers = {}

\* C19: an accepted 'click' / 'select' dispatches the synthetic click at the
\* position the gaze cursor shows at that moment (to less than the 1 px the
\* cursor itself lets go) and the feedback is 'Clicked'.
C19_ClickAtCursor ==
  [][ \A cmd \in CursorTranscripts :
        (Transcript(cmd) /\ lastCommandTime' # lastCommandTime)
          => /\ queued'.toast = "Clicked"
             /\ Abs(clickedAt'.x * PosScale - position.x) < PosScale
             /\ Abs(clickedAt'.y * PosScale - position.y) < PosScale ]_vars

\* The cursor is within 1 px of the target on both axes
Converged ==
  /\ Abs(gaze.x * PosScale - position.x) < PosScale
  /\ Abs(gaze.y * PosScale - position.y) < PosScale

\* C20: for every smoothing and precision mode and every fixed target,
\* animation ticks with no new sample bring the cursor to within 1 px of
\* the target on both axes after finitely many ticks, and no later tick
\* changes the position.
C20_CursorConverges ==
  /\ <>[]Converged
  /\ [][Converged => position' = position]_vars

\* The cursor came to rest within 1 px of a target it was not at, short of
\* the target itself.
C20_Witness ==
  /\ Converged
  /\ position \notin LerpStarts
  /\ position # [x |-> gaze.x * PosScale, y |-> gaze.y * PosScale]
  /\ precisionMode
  /\ smoothing = 10

\* The rules of the claim, in their order: the keywords of each
IntentRules ==
  << {"dashboard", "home"}, {"calibrate", "calibration"},
     {"settings", "configure"}, {"start tracking", "enable tracking"},
     {"stop tracking", "pause"}, {"start"}, {"precision", "slow mode"},
     {"reset"}, {"click", "select"} >>

\* Rule i matches the transcript ('start' only in the calibration view)
RuleMatches(i, cmd) ==
  /\ cmd \cap IntentRules[i] # {}
  /\ i = 6 => viewRef = "calibration"

\* The first rule that matches, 0 for none
FirstRule(cmd) ==
  IF \E i \in DOMAIN IntentRules : RuleMatches(i, cmd)
  THEN CHOOSE i \in DOMAIN IntentRules :
         /\ RuleMatches(i, cmd)
         /\ \A j \in 1..(i - 1) : ~RuleMatches(j, cmd)
  ELSE 0

\* The transcript gets to the grammar: not muted, cooldown over, no speech
\* playing, no calibration running
ReachesGrammar ==
  /\ ~ignoreInput
  /\ now - lastCommandTime >= Cooldown
  /\ synthQueue = <<>>
  /\ ~dataCalibrating

\* The one intent of rule k, as the values it queues (with the toast of
\* its feedback) and what else it does
IntentOf(k) ==
  CASE k = 1 -> /\ queued' = [queued EXCEPT !.view = "dashboard",
                                            !.toast = "Main view active"]
                /\ UNCHANGED <<calibData, clickedAt, dataCalibrating>>
    [] k = 2 -> /\ queued' = [queued EXCEPT !.view = "calibration",
                                            !.toast = "Alignment view active"]
                /\ UNCHANGED <<calibData, clickedAt, dataCalibrating>>
    [] k = 3 -> /\ queued' = [queued EXCEPT !.view = "settings",
                                            !.toast = "Settings loaded"]
                /\ UNCHANGED <<calibData, clickedAt, dataCalibrating>>
    [] k = 4 -> /\ queued' = [queued EXCEPT !.isTrackingEnabled = TRUE,
                                            !.toast = "Tracker active"]
                /\ UNCHANGED <<calibData, clickedAt, dataCalibrating>>
    [] k = 5 -> /\ queued' = [queued EXCEPT !.isTrackingEnabled = FALSE,
                                            !.toast = "Paused"]
                /\ UNCHANGED <<calibData, clickedAt, dataCalibrating>>
    [] k = 6 -> /\ queued' = [queued EXCEPT !.isTrackingEnabled = TRUE,
                                            !.calibState = "running",
                                            !.activePointIndex = 0,
                                            !.calibProgress = ZeroProgress]
                /\ dataCalibrating' /\ calibData' = "cleared" /\ ignoreInput'
                /\ UNCHANGED <<clickedAt, lastCommandTime, synthQueue>>
    [] k = 7 -> /\ queued' = [queued EXCEPT
                                !.precisionMode = ~precisionModeRef,
                                !.toast = IF precisionModeRef
                                          THEN "Normal speed"
                                          ELSE "Precision active"]
                /\ UNCHANGED <<calibData, clickedAt, dataCalibrating>>
    [] k = 8 -> /\ queued' = [queued EXCEPT !.toast = "Data reset"]
                /\ calibData' = "cleared"
                /\ UNCHANGED <<clickedAt, dataCalibrating>>
    [] k = 9 -> IF ElementAt(gazeRef)
                THEN /\ queued' = [queued EXCEPT !.toast = "Clicked"]
                     /\ clickedAt' = gazeRef
                     /\ UNCHANGED <<calibData, dataCalibrating>>
                ELSE UNCHANGED vars
    [] OTHER -> UNCHANGED vars

\* C17: a transcript processed outside calibration dispatches the intent of
\* the first rule that matches, in the fixed order, and nothing else; a
\* transcript that matches no rule changes no state.
C17_FirstMatchWins ==
  [][ \A cmd \in GrammarTranscripts :
        (Transcript(cmd) /\ ReachesGrammar) => IntentOf(FirstRule(cmd)) ]_vars

\* A second command accepted 2000 ms after the first: the settings view of
\* the first is rendered, the dashboard intent of the second is queued.
C17_Witness ==
  /\ view = "settings"
  /\ queued.view = "dashboard"
  /\ queued.toast = "Main view active"
  /\ lastCommandTime = now
  /\ now = Epoch + Cooldown

\* The transcripts 'start tracking' / 'enable tracking' and 'stop tracking'
\* / 'pause', by the keywords they include
TrackingOn == {{"start tracking", "start"}, {"enable tracking"}}
TrackingOff == {{"stop tracking", "stop"}, {"pause"}}

\* C18: an accepted 'start tracking' / 'enable tracking' leaves
\* isTrackingEnabled true whatever it was, 'stop tracking' / 'pause' leaves
\* it false; view, precisionMode and calibState do not change and the
\* feedback 'Tracker active' (resp. 'Paused') is handed to the synthesizer.
C18_TrackingCommands ==
  [][ /\ \A cmd \in TrackingOn :
           (Transcript(cmd) /\ ReachesGrammar)
             => /\ queued'.isTrackingEnabled
                /\ queued'.view = queued.view
                /\ queued'.precisionMode = queued.precisionMode
                /\ queued'.calibState = queued.calibState
                /\ ~dataCalibrating'
                /\ synthQueue' = <<Utterance("Tracker active", TRUE)>>
      /\ \A cmd \in TrackingOff :
           (Transcript(cmd) /\ ReachesGrammar)
             => /\ ~queued'.isTrackingEnabled
                /\ queued'.view = queued.view
                /\ queued'.precisionMode = queued.precisionMode
                /\ queued'.calibState = queued.calibState
                /\ ~dataCalibrating'
                /\ synthQueue' = <<Utterance("Paused", TRUE)>> ]_vars

\* A tracking-on command accepted in the calibration view: the feedback is
\* queued and no calibration started.
C18_Witness ==
  /\ queued.isTrackingEnabled
  /\ queued.toast = "Tracker active"
  /\ synthQueue = <<Utterance("Tracker active", TRUE)>>
  /\ lastCommandTime = now
  /\ queued.calibState = "idle"
  /\ ~dataCalibrating
  /\ viewRef = "calibration"

\* The number of animation ticks from pos until the updater returns prev
RECURSIVE TicksToRest(_, _, _, _)
TicksToRest(pos, target, sm, prec) ==
  LET next == AnimateStep(pos, target.x, target.y, sm, prec)
  IN IF next = pos THEN 0 ELSE 1 + TicksToRest(next, target, sm, prec)

\* C21: for every smoothing of the slider the factor with precision mode on
\* is strictly smaller than with it off; from the same position and target
\* a tick with precision mode on moves less on each axis (strictly less on
\* an axis that is 1 px or more from the target), and coming to rest never
\* takes fewer ticks.
C21_PrecisionIsSlower ==
  /\ \A sm \in 1..SliderMax :
       FactorNum(EffectiveSmoothing(sm, TRUE))
           * FactorDen(EffectiveSmoothing(sm, FALSE))
         < FactorNum(EffectiveSmoothing(sm, FALSE))
             * FactorDen(EffectiveSmoothing(sm, TRUE))
  /\ LET on == AnimateStep(position, gaze.x, gaze.y, smoothing, TRUE)
         off == AnimateStep(position, gaze.x, gaze.y, smoothing, FALSE)
         dx == gaze.x * PosScale - position.x
         dy == gaze.y * PosScale - position.y
     IN /\ Abs(on.x - position.x) <= Abs(off.x - position.x)
        /\ Abs(on.y - position.y) <= Abs(off.y - position.y)
        /\ (~Converged /\ Abs(dx) >= PosScale)
             => Abs(on.x - position.x) < Abs(off.x - position.x)
        /\ (~Converged /\ Abs(dy) >= PosScale)
             => Abs(on.y - position.y) < Abs(off.y - position.y)
  /\ TicksToRest(position, gaze, smoothing, TRUE)
       >= TicksToRest(position, gaze, smoothing, FALSE)

\* On its way to the target, the cursor needs more ticks with precision mode
\* on than with it off.
C21_Witness ==
  /\ ~Converged
  /\ position \notin LerpStarts
  /\ TicksToRest(position, gaze, smoothing, TRUE)
       > TicksToRest(position, gaze, smoothing, FALSE)
  /\ TicksToRest(position, gaze, smoothing, FALSE) > 0

\* C22: when the provider ends the session while shouldBeListening is true,
\* the end handler starts recognition again and isListening is true after
\* it; when shouldBeListening is false the session stays idle and
\* isListening is false.  stop() and a 'not-allowed' error clear
\* shouldBeListening, so the end that follows them does not restart.
C22_RestartOnEnd ==
  /\ [](lastCall \in {"stopped", "denied"} => ~shouldBeListening)
  /\ [][ProviderEnds =>
         IF shouldBeListening
         THEN isListening' /\ provider' = "running"
              /\ lastCall' = "restarted"
         ELSE ~isListening' /\ provider' = "idle" /\ lastCall' = "ended"]_vars

\* The provider ended a session and the handler started the next one.
C22_Witness ==
  /\ lastCall = "restarted"
  /\ isListening
  /\ provider = "running"
  /\ isVoiceEnabled

\* C23: start() while isListening is true does not call the provider (the
\* session is left as it is); when recognition.start() throws, start()
\* returns with isListening true; and the end of a session after such a
\* start (stop() then start() before the 'end' event) leaves the service
\* listening on a running session.
C23_StartIsTolerant ==
  /\ [](hasRecognition /\ isListening
          => /\ ServiceStart(Svc).lastCall = "skipped"
             /\ ServiceStart(Svc).provider = provider
             /\ ServiceStart(Svc).isListening)
  /\ [](hasRecognition /\ ~isListening /\ StartThrows(Svc)
          => /\ ServiceStart(Svc).lastCall = "absorbed"
             /\ ServiceStart(Svc).isListening
             /\ ServiceStart(Svc).shouldBeListening)
  /\ [](lastCall = "absorbed" => isListening /\ provider = "stopping")
  /\ [][lastCall = "absorbed" /\ ProviderEnds
          => isListening' /\ provider' = "running"]_vars

\* start() was called while the stopped session had not ended yet.
C23_Witness ==
  /\ lastCall = "absorbed"
  /\ isListening
  /\ shouldBeListening
  /\ provider = "stopping"

\* C25: without a speech-recognition API, start() and stop() return on
\* their first test, isListening is never true, no session exists to
\* deliver a transcript, and a step changes nothing but the voice setting
\* itself (queued, then committed) and the service's note of it,
\* shouldBeListening.
C25_InertWithoutSpeechApi ==
  /\ [](~hasRecognition
          => /\ ~isListening
             /\ ~Delivering
             /\ lastCall \in {"none", "absent", "stopped"}
             /\ ServiceStart(Svc).lastCall = "absent"
             /\ ~ServiceStart(Svc).isListening
             /\ ~ServiceStop(Svc).isListening)
  /\ [][~hasRecognition
          => /\ queued' = [queued EXCEPT
                              !.isVoiceEnabled = queued'.isVoiceEnabled]
             /\ UNCHANGED <<now, dwellVars, view, isTrackingEnabled, gaze,
                            toast, scrollAction, precisionMode, calibState,
                            activePointIndex, calibProgress, appRefs,
                            ignoreInput, isListening, hasRecognition,
                            provider, synthQueue, enginePaused, calibData,
                            initialized, innerHeight, position, smoothing,
                            gazeListener, initAttempts, history>>]_vars

\* Without the API the voice switch was turned on and the effect called
\* start().
C25_Witness ==
  /\ ~hasRecognition
  /\ isVoiceEnabled
  /\ ~appDirty
  /\ shouldBeListening
  /\ lastCall = "absent"

\* A camera permission check came back denied, or init() threw.
InitFailure ==
  \/ \E i \in 1..Len(initAttempts) : PermissionResult(i, FALSE)
  \/ \E i \in 1..Len(initAttempts) : InitResult(i, FALSE)

C26_NoDwellWhileRunning ==
  [][calibState = "running" /\ calibState' = "running"
       => /\ nextProgress' = nextProgress \/ nextProgress' = ZeroProgress
          /\ activations' = activations \/ activations' = 0]_vars

\* The changes of calibState the claim allows
CalibSteps ==
  {<<"idle", "running">>, <<"running", "completed">>, <<"running", "idle">>,
   <<"completed", "running">>}

\* C27: the rendered calibState changes only from idle to running, from
\* running to completed (and then the run is at its 9th point), from running
\* to idle and from completed to running.
C27_CalibTransitions ==
  [][calibState' # calibState
       => /\ <<calibState, calibState'>> \in CalibSteps
          /\ calibState' = "completed"
               => activePointIndex = LastPointIndex]_vars

\* C28: a render that hands a hovered, enabled button another dwellTimeMs or
\* a new onClick keeps the session: the start time, the queued progress and
\* the hover stay, no click happens, and the one frame left pending carries
\* the new duration; a pending frame always carries the rendered duration,
\* and the frame that runs next computes progress and the firing test from
\* the kept start time with that duration.
C28_DurationChangeKeepsSession ==
  /\ [](\A f \in rafQueue : f.dwell = dwellTimeMs)
  /\ [][ /\ \A nw \in 1..MaxDwell, nc \in BOOLEAN :
               (ParentRender(disabled, nw, nc) /\ isHovered /\ nextIsHovered
                  /\ ~disabled)
                 => /\ startTimeRef' = startTimeRef
                    /\ nextProgress' = nextProgress
                    /\ isHovered'
                    /\ clicks' = clicks
                    /\ Cardinality(rafQueue') = 1
                    /\ \A f \in rafQueue' : f.dwell = nw
          /\ \A f \in rafQueue :
               (Animate(f) /\ startTimeRef # 0)
                 => IF now - startTimeRef < dwellTimeMs
                    THEN /\ nextProgress'
                              = DwellProgress(now - startTimeRef, dwellTimeMs)
                         /\ startTimeRef' = startTimeRef
                         /\ clicks' = clicks
                    ELSE clicks' = clicks + 1
        ]_vars

\* The rendered progress was computed with another duration than the one
\* the button has now, and a frame has since queued a progress computed
\* with the new one, in the same session.
C28_Witness ==
  /\ isHovered
  /\ startTimeRef # 0
  /\ progress[1] > 0
  /\ progress[2] # dwellTimeMs
  /\ progress # FullProgress
  /\ nextProgress[1] > progress[1]
  /\ nextProgress = DwellProgress(now - startTimeRef, dwellTimeMs)
  /\ nextProgress # FullProgress
  /\ clicks = 0

\* What the last gaze sample was classified as: the scrollAction that is
\* queued once a sample has been handled
Classified(y, a) ==
  /\ HandleSmartFeatures(y, innerHeight).action = a
  /\ queued.gaze.y = y => queued.scrollAction = a

\* C29 as stated: also in a window lower than 240 px a sample at exactly
\* 120 or h - 120 is neutral.
C29_BoundaryAlwaysNeutral ==
  ~dataCalibrating
    => \A y \in EdgeYs :
         y \in {scrollThreshold, innerHeight - scrollThreshold}
           => Classified(y, "none")

\* C29: with tracking on and no calibration, a sample with y > h - 120 is
\* 'down', otherwise one with y < 120 is 'up', otherwise it is neutral; in
\* a window of 240 px or more y = 120 and y = h - 120 are neutral; where
\* both tests are true (h < 240) the sample is 'down'.
C29_EdgeClassification ==
  ~dataCalibrating
    => \A y \in EdgeYs :
         LET h == innerHeight
         IN /\ y > h - scrollThreshold => Classified(y, "down")
            /\ (y <= h - scrollThreshold /\ y < scrollThreshold)
                 => Classified(y, "up")
            /\ (y <= h - scrollThreshold /\ y >= scrollThreshold)
                 => Classified(y, "none")
            /\ (h >= 2 * scrollThreshold
                  /\ y \in {scrollThreshold, h - scrollThreshold})
                 => Classified(y, "none")
            /\ (y > h - scrollThreshold /\ y < scrollThreshold)
                 => Classified(y, "down")

\* In a window of 200 px a sample that is within 120 px of both edges was
\* handled: it scrolls down.
C29_Witness ==
  /\ innerHeight < 2 * scrollThreshold
  /\ queued.gaze.y > innerHeight - scrollThreshold
  /\ queued.gaze.y < scrollThreshold
  /\ queued.scrollAction = "down"
  /\ \E f \in scrollFrames : f.top = ScrollStep

\* C30: a pending progress interval and a pending point timeout exist only
\* while calibState is 'running', they were set for the rendered
\* activePointIndex, and a pending interval runs in the window of the
\* pending timeout.  (The effect's cleanup clears both timers before its
\* body sets new ones, so there is one of each at most.)
C30_OneSession ==
  /\ progressInterval.on
       => /\ calibState = "running"
          /\ progressInterval.idx = activePointIndex
          /\ pointTimeout.on
          /\ pointTimeout.deadline
               = progressInterval.startTime + settleTime + recordTime
  /\ pointTimeout.on
       => /\ calibState = "running"
          /\ pointTimeout.idx = activePointIndex
          /\ progressInterval.on
  /\ calibState # "running" => (~progressInterval.on /\ ~pointTimeout.on)

\* The run that began at its last point was completed and the calibration
\* started again (no voice command was given): the timers of the new run's
\* first point are pending.
C30_Witness ==
  /\ calibState = "running"
  /\ lastCommandTime = 0
  /\ view = "calibration"
  /\ activePointIndex = 0
  /\ progressInterval.on
  /\ pointTimeout.on
  /\ now > progressInterval.startTime

\* ---- SpecRun: a whole voice-driven calibration from the mount: the app is
\* mounted at Epoch with tracking and voice on, the user says "calibration",
\* then "start" as soon as the cooldown allows, and may say "stop" at any
\* instant; time passes from one timer deadline to the next.
RunMaxTime == 25000
RunTranscripts == {{"calibration"}, {"start"}, {"stop"}}
InitRun ==
  /\ now = Epoch
  /\ DwellIdle
  /\ AppMounted(TRUE, TRUE, 600)
RunNext ==
  \/ \E cmd \in RunTranscripts : Transcript(cmd)
  \/ UnmuteTimeout
  \/ UtteranceEnd
  \/ IntervalTick
  \/ PointTimeout
  \/ AppCommit
  \/ \E t \in Deadlines \cup {lastCommandTime + Cooldown} : Tick(t, RunMaxTime)
SpecRun == InitRun /\ [][RunNext]_vars

\* C31: at most one utterance is speaking or queued in speechSynthesis at
\* any time.
C31_OneUtterance ==
  Len(synthQueue) <= 1

\* C33: while the mute window of the latest command's feedback is open (its
\* utterance has not ended and its own 3000 ms timeout is still pending),
\* ignoreInput is true: no callback of an earlier command has unmuted it.
C33_OwnUnmute ==
  ( /\ \E i \in DOMAIN synthQueue : synthQueue[i].unmutes
    /\ (lastCommandTime + UnmuteDelay) \in unmuteTimers )
  => ignoreInput

\* ---- SpecEvent: recognition events that carry one or two final results,
\* from the mount with voice on; a calibration can be started and cancelled
\* by voice.
\* recognition.onresult: the mute flag is read once, then the callback is
\* called for every final result from resultIndex on.
RECURSIVE OnResultLoop(_, _)
OnResultLoop(r, results) ==
  IF results = <<>> THEN r
  ELSE OnResultLoop(VoiceCallback(r, Head(results)), Tail(results))

OnResultEvent(r, results) ==
  IF r.ignoreInput THEN r ELSE OnResultLoop(r, results)

\* The browser delivers a 'result' event with the given final results.
TranscriptEvent(results) ==
  /\ Delivering
  /\ Apply(Acted(Cur, OnResultEvent(Cur, results)))
  /\ HandlerFrame
  /\ UNCHANGED <<scrollRef, scrollFrames, lastRecord, scrolled>>

EventMaxTime == 9000
EventWords == {{"calibration"}, {"start"}, {"stop"}}
EventResults ==
  {<<a>> : a \in EventWords} \cup {<<a, b>> : a \in EventWords, b \in EventWords}
InitEvent ==
  /\ now = Epoch
  /\ DwellIdle
  /\ AppMounted(TRUE, TRUE, 600)
EventNext ==
  \/ \E results \in EventResults : TranscriptEvent(results)
  \/ UnmuteTimeout
  \/ UtteranceEnd
  \/ IntervalTick
  \/ PointTimeout
  \/ AppCommit
  \/ \E t \in Deadlines \cup {lastCommandTime + Cooldown} : Tick(t, EventMaxTime)
SpecEvent == InitEvent /\ [][EventNext]_vars

\* The event makes onresult call the callback for a result after an earlier
\* result of the same event has muted the input.
CallbackWhileMuted(r, results) ==
  /\ ~r.ignoreInput
  /\ \E k \in 1..(Len(results) - 1) :
       OnResultLoop(r, SubSeq(results, 1, k)).ignoreInput

\* C34: VoiceService never calls the transcript callback while ignoreInput
\* is true, also not for the second final result of an event whose first
\* result muted the input.
C34_NoCallbackWhileMuted ==
  [][ \A results \in EventResults :
        TranscriptEvent(results) => ~CallbackWhileMuted(Cur, results) ]_vars

\* C35: a gaze sample delivered while settings.isTrackingEnabled is false
\* changes neither gaze nor scrollAction and starts no scroll loop, whatever
\* the order of the toggles and of the results of the initTracking attempts.
C35_NoGazeWhileDisabled ==
  [][ \A y \in GazeYs :
        (GazeSample(400, y) /\ ~isTrackingEnabled)
        => UNCHANGED <<queued, scrollRef, scrollFrames>> ]_vars

\* C36: whenever calibration is not running and no render (hence no effect)
\* is pending, the gaze engine is resumed iff settings.isTrackingEnabled is
\* true.
C36_EngineFollowsSetting ==
  (calibState # "running" /\ ~appDirty) => (enginePaused <=> ~isTrackingEnabled)

\* C37 as stated: in every state, where a gaze sample or a transcript may be
\* handled next, the body attribute data-calibrating is set exactly when
\* calibState is 'running'.
C37_GateIsPhase ==
  dataCalibrating <=> (calibState = "running")

\* C37: when no render of App is pending, data-calibrating is set exactly
\* when calibState is 'running'; while a render is pending the attribute
\* agrees with the queued or with the rendered calibState.
C37_GateIsPhaseWhenRendered ==
  /\ ~appDirty => (dataCalibrating <=> (calibState = "running"))
  /\ \/ dataCalibrating <=> (calibState = "running")
     \/ dataCalibrating <=> (queued.calibState = "running")

\* A calibration ran to its completion and the render that committed
\* 'completed' cleared the attribute.
C37_Witness ==
  /\ calibState = "completed"
  /\ ~appDirty
  /\ ~dataCalibrating
  /\ Len(visited) = LastPointIndex + 1

\* C38: in every state of VoiceService isListening implies
\* shouldBeListening: after stop() or a 'not-allowed' error the service does
\* not record itself as listening until start() is called again.
C38_ListeningIsWanted ==
  isListening => shouldBeListening

\* The session was stopped, or denied, and its 'end' event has been
\* handled without a restart.
C38_Witness ==
  /\ hasRecognition
  /\ lastCall = "ended"
  /\ provider = "idle"
  /\ ~shouldBeListening
  /\ ~isListening

\* C32: every transcript the callback acts on records lastCommandTime, and
\* it comes 2000 ms or more after the transcript acted on before it.
C32_ActedOnRecordsTime ==
  [][ \A cmd \in VoiceTranscripts :
        Transcript(cmd) => /\ lastCommandTime' = now
                           /\ now - actedAt >= Cooldown ]_vars

\* ---- SpecToast: a toast shown by a voice command while gaze samples keep
\* arriving: tracking and voice on, the engine initialized and its listener
\* installed; the gaze rests in the neutral zone.
ToastMaxTime == 12000
ToastGazeStep == 1000
ToastGazeY == 300
\* Time passes up to t, the timeout of the Toast included in the deadlines.
ToastTick(t) ==
  /\ toastTimer.on => (toastTimer.deadline > now /\ t <= toastTimer.deadline)
  /\ Tick(t, ToastMaxTime)
InitToast ==
  /\ now = Epoch
  /\ DwellIdle
  /\ AppAt(TRUE, TRUE, 600, TRUE, Origin, FALSE, Origin, DefaultSmoothing)
ToastNext ==
  \/ Transcript({"settings"})
  \/ GazeSample(400, ToastGazeY)
  \/ ToastTimeout
  \/ UnmuteTimeout
  \/ UtteranceEnd
  \/ AppCommit
  \/ \E t \in Deadlines \cup {now + ToastGazeStep}
              \cup (IF toastTimer.on THEN {toastTimer.deadline} ELSE {}) :
       ToastTick(t)
SpecToast == InitToast /\ [][ToastNext]_vars

\* C39: a toast is dismissed 3000 ms after it was shown: no toast is on the
\* screen later than 3000 ms after the setToast call that showed it,
\* however often App renders in between.
C39_ToastIsTransient ==
  toast # "" => now - toastShownAt <= ToastDelay


====
